---- MODULE Spec2Model ----
(***************************************************************************)
(* Model of the code execution tool of the Sage assistant                  *)
(* (src/tools/code_executor.py): execute_code, the sandbox script it       *)
(* synthesizes (_create_sandbox_script) and the child process that runs    *)
(* the script.                                                             *)
(*                                                                         *)
(* Python strings are modelled as run-length encoded character sequences   *)
(* (a Text is a sequence of <<character, count>> runs in which adjacent    *)
(* runs carry different characters), so that the 10000-character limit of  *)
(* execute_code is checked at its real value.  Module names are plain      *)
(* character sequences.                                                    *)
(***************************************************************************)
EXTENDS Integers, Sequences, FiniteSets, TLC

\* ------------------------------------------------------------------------
\* Bounds of the model
\* ------------------------------------------------------------------------

\* Largest number of statements in a caller snippet.
MaxStmts == 2

\* ------------------------------------------------------------------------
\* Python str operations on run-length encoded text
\* ------------------------------------------------------------------------

Min(set) == CHOOSE m \in set : \A k \in set : m <= k

Max(set) == CHOOSE m \in set : \A k \in set : m >= k

\* str * n for a one-character string
Rep(c, n) == IF n <= 0 THEN <<>> ELSE << <<c, n>> >>

\* str + str (and output += ...)
Cat(a, b) ==
  IF a = <<>> THEN b
  ELSE IF b = <<>> THEN a
  ELSE IF a[Len(a)][1] = b[1][1]
       THEN SubSeq(a, 1, Len(a) - 1)
              \o << <<b[1][1], a[Len(a)][2] + b[1][2]>> >>
              \o Tail(b)
       ELSE a \o b

\* the text of the characters cs[lo..hi]
RECURSIVE SRange(_, _, _)
SRange(cs, lo, hi) ==
  IF lo > hi THEN <<>>
  ELSE IF lo = hi THEN Rep(cs[lo], 1)
  ELSE LET m == (lo + hi) \div 2
       IN  Cat(SRange(cs, lo, m), SRange(cs, m + 1, hi))

\* a string literal, given as the sequence of its characters
S(cs) == SRange(cs, 1, Len(cs))

\* the number of characters in the runs t[lo..hi]
RECURSIVE RunSum(_, _, _)
RunSum(t, lo, hi) ==
  IF lo > hi THEN 0
  ELSE IF lo = hi THEN t[lo][2]
  ELSE LET m == (lo + hi) \div 2
       IN  RunSum(t, lo, m) + RunSum(t, m + 1, hi)

\* len(str)
TLen(t) == RunSum(t, 1, Len(t))

\* the index of the run that holds the k-th character (1 <= k <= len)
RECURSIVE RunOf(_, _, _, _)
RunOf(t, k, lo, hi) ==
  IF lo >= hi THEN lo
  ELSE LET m == (lo + hi) \div 2
       IN  IF RunSum(t, 1, m) >= k THEN RunOf(t, k, lo, m)
           ELSE RunOf(t, k, m + 1, hi)

\* str[:k]
Slice(t, k) ==
  IF k <= 0 THEN <<>>
  ELSE IF TLen(t) <= k THEN t
  ELSE LET i == RunOf(t, k, 1, Len(t))
       IN  SubSeq(t, 1, i - 1) \o << <<t[i][1], k - RunSum(t, 1, i - 1)>> >>

\* str[k:]
SliceFrom(t, k) ==
  IF k <= 0 THEN t
  ELSE IF TLen(t) <= k THEN <<>>
  ELSE LET i == RunOf(t, k + 1, 1, Len(t))
       IN  << <<t[i][1], RunSum(t, 1, i) - k>> >> \o SubSeq(t, i + 1, Len(t))

\* the characters str.strip() removes (the ones the model uses)
Whitespace == {" ", "\n", "\t"}

\* str.strip()
Strip(t) ==
  LET keep == {i \in 1..Len(t) : t[i][1] \notin Whitespace}
  IN  IF keep = {} THEN <<>> ELSE SubSeq(t, Min(keep), Max(keep))

\* str.startswith(prefix) on text
StartsWith(t, p) == TLen(t) >= TLen(p) /\ Slice(t, TLen(p)) = p

\* "sub in str" on text: the first run of p ends a run of t, the last run
\* of p starts one, the runs between are equal
Contains(t, p) ==
  \/ p = <<>>
  \/ /\ Len(p) = 1
     /\ \E j \in 1..Len(t) : t[j][1] = p[1][1] /\ t[j][2] >= p[1][2]
  \/ /\ Len(p) > 1
     /\ \E j \in 1..(Len(t) - Len(p) + 1) :
          /\ t[j][1] = p[1][1] /\ t[j][2] >= p[1][2]
          /\ \A m \in 2..(Len(p) - 1) : t[j + m - 1] = p[m]
          /\ t[j + Len(p) - 1][1] = p[Len(p)][1]
          /\ t[j + Len(p) - 1][2] >= p[Len(p)][2]

\* one decimal digit
Digit(d) ==
  CASE d = 0 -> "0" [] d = 1 -> "1" [] d = 2 -> "2" [] d = 3 -> "3"
    [] d = 4 -> "4" [] d = 5 -> "5" [] d = 6 -> "6" [] d = 7 -> "7"
    [] d = 8 -> "8" [] d = 9 -> "9"

\* str(n) of a natural number, as {len(plot_files)} formats it
RECURSIVE Str(_)
Str(n) == IF n < 10 THEN Rep(Digit(n), 1)
          ELSE Cat(Str(n \div 10), Rep(Digit(n % 10), 1))

\* ------------------------------------------------------------------------
\* String literals of execute_code and of the sandbox script
\* (the escape character \033 is written "ESC")
\* ------------------------------------------------------------------------

\* line 37: "Error: No code provided to execute."
NoCodeMsg == S(<<
    "E", "r", "r", "o", "r", ":", " ", "N", "o", " ", "c", "o", "d", "e",
    " ", "p", "r", "o", "v", "i", "d", "e", "d", " ", "t", "o", " ", "e",
    "x", "e", "c", "u", "t", "e", "." >>)

\* line 77: "(No output)"
NoOutputMarker == S(<<
    "(", "N", "o", " ", "o", "u", "t", "p", "u", "t", ")" >>)

\* line 80: "\n\nErrors:\n"
ErrorsSeparator == S(<<
    "\n", "\n", "E", "r", "r", "o", "r", "s", ":", "\n" >>)

\* line 88: "\n\n"
PlotNoticeLead == S(<<
    "\n", "\n" >>)

\* line 88: " plot(s) were generated."
PlotNoticeTail == S(<<
    " ", "p", "l", "o", "t", "(", "s", ")", " ", "w", "e", "r", "e", " ",
    "g", "e", "n", "e", "r", "a", "t", "e", "d", "." >>)

\* a suffix longer than the one of line 95
TruncationSuffixLong == <<<<"\n", 1>>, <<".", 3>>, <<" ", 60>>>>

\* line 95: "\n... (output truncated, exceeded 10000 characters)"
TruncationSuffix == S(<<
    "\n", ".", ".", ".", " ", "(", "o", "u", "t", "p", "u", "t", " ", "t",
    "r", "u", "n", "c", "a", "t", "e", "d", ",", " ", "e", "x", "c", "e",
    "e", "d", "e", "d", " ", "1", "0", "0", "0", "0", " ", "c", "h", "a",
    "r", "a", "c", "t", "e", "r", "s", ")" >>)

\* line 100: "Error: Code execution timed out."
TimedOutMsg == S(<<
    "E", "r", "r", "o", "r", ":", " ", "C", "o", "d", "e", " ", "e", "x",
    "e", "c", "u", "t", "i", "o", "n", " ", "t", "i", "m", "e", "d", " ",
    "o", "u", "t", "." >>)

\* line 103: "Error executing code: "
ErrorExecutingPrefix == S(<<
    "E", "r", "r", "o", "r", " ", "e", "x", "e", "c", "u", "t", "i", "n",
    "g", " ", "c", "o", "d", "e", ":", " " >>)

\* line 373: "Import warning: Empty package name detected in import. Globals dict: "
MsgEmptyPackage == S(<<
    "I", "m", "p", "o", "r", "t", " ", "w", "a", "r", "n", "i", "n", "g",
    ":", " ", "E", "m", "p", "t", "y", " ", "p", "a", "c", "k", "a", "g",
    "e", " ", "n", "a", "m", "e", " ", "d", "e", "t", "e", "c", "t", "e",
    "d", " ", "i", "n", " ", "i", "m", "p", "o", "r", "t", ".", " ", "G",
    "l", "o", "b", "a", "l", "s", " ", "d", "i", "c", "t", ":", " " >>)

\* line 395: "Package '"
MsgNotFoundLead == S(<<
    "P", "a", "c", "k", "a", "g", "e", " ", "'" >>)

\* line 395: "' not found. Attempting to install..."
MsgNotFoundTail == S(<<
    "'", " ", "n", "o", "t", " ", "f", "o", "u", "n", "d", ".", " ", "A",
    "t", "t", "e", "m", "p", "t", "i", "n", "g", " ", "t", "o", " ", "i",
    "n", "s", "t", "a", "l", "l", ".", ".", "." >>)

\* line 399: "' is not available and couldn't be installed."
MsgNotAvailableTail == S(<<
    "'", " ", "i", "s", " ", "n", "o", "t", " ", "a", "v", "a", "i", "l",
    "a", "b", "l", "e", " ", "a", "n", "d", " ", "c", "o", "u", "l", "d",
    "n", "'", "t", " ", "b", "e", " ", "i", "n", "s", "t", "a", "l", "l",
    "e", "d", "." >>)

\* line 407: "SecurityError: Import of '"
MsgSecurityImportLead == S(<<
    "S", "e", "c", "u", "r", "i", "t", "y", "E", "r", "r", "o", "r", ":",
    " ", "I", "m", "p", "o", "r", "t", " ", "o", "f", " ", "'" >>)

\* line 407: "' (from '"
MsgFromLead == S(<<
    "'", " ", "(", "f", "r", "o", "m", " ", "'" >>)

\* line 407: "') is not allowed"
MsgSecurityImportTail == S(<<
    "'", ")", " ", "i", "s", " ", "n", "o", "t", " ", "a", "l", "l", "o",
    "w", "e", "d" >>)

\* line 408: "Blocked import: '"
MsgBlockedLead == S(<<
    "B", "l", "o", "c", "k", "e", "d", " ", "i", "m", "p", "o", "r", "t",
    ":", " ", "'" >>)

\* line 408: "')"
MsgBlockedTail == S(<<
    "'", ")" >>)

\* line 287: "Installing "
MsgInstallingLead == S(<<
    "I", "n", "s", "t", "a", "l", "l", "i", "n", "g", " " >>)

\* line 287: "... This may take a moment."
MsgMomentTail == S(<<
    ".", ".", ".", " ", "T", "h", "i", "s", " ", "m", "a", "y", " ", "t",
    "a", "k", "e", " ", "a", " ", "m", "o", "m", "e", "n", "t", "." >>)

\* line 290: "Successfully installed "
MsgInstalledLead == S(<<
    "S", "u", "c", "c", "e", "s", "s", "f", "u", "l", "l", "y", " ", "i",
    "n", "s", "t", "a", "l", "l", "e", "d", " " >>)

\* line 293: "\u001b[31mFailed to install '"
MsgFailedLead == S(<<
    "ESC", "[", "3", "1", "m", "F", "a", "i", "l", "e", "d", " ", "t", "o",
    " ", "i", "n", "s", "t", "a", "l", "l", " ", "'" >>)

\* line 293: "'\u001b[0m: "
MsgFailedTail == S(<<
    "'", "ESC", "[", "0", "m", ":", " " >>)

\* line 295: "Trying to install as "
MsgTryingLead == S(<<
    "T", "r", "y", "i", "n", "g", " ", "t", "o", " ", "i", "n", "s", "t",
    "a", "l", "l", " ", "a", "s", " " >>)

\* line 432: "SecurityError: Writing to files is not allowed"
MsgWriteDenied == S(<<
    "S", "e", "c", "u", "r", "i", "t", "y", "E", "r", "r", "o", "r", ":",
    " ", "W", "r", "i", "t", "i", "n", "g", " ", "t", "o", " ", "f", "i",
    "l", "e", "s", " ", "i", "s", " ", "n", "o", "t", " ", "a", "l", "l",
    "o", "w", "e", "d" >>)

\* line 477: "Matplotlib initialized successfully in non-interactive mode."
MsgMatplotlibOk == S(<<
    "M", "a", "t", "p", "l", "o", "t", "l", "i", "b", " ", "i", "n", "i",
    "t", "i", "a", "l", "i", "z", "e", "d", " ", "s", "u", "c", "c", "e",
    "s", "s", "f", "u", "l", "l", "y", " ", "i", "n", " ", "n", "o", "n",
    "-", "i", "n", "t", "e", "r", "a", "c", "t", "i", "v", "e", " ", "m",
    "o", "d", "e", "." >>)

\* line 479: "Warning: Matplotlib setup failed: "
MsgMatplotlibFailed == S(<<
    "W", "a", "r", "n", "i", "n", "g", ":", " ", "M", "a", "t", "p", "l",
    "o", "t", "l", "i", "b", " ", "s", "e", "t", "u", "p", " ", "f", "a",
    "i", "l", "e", "d", ":", " " >>)

\* line 517: "Error: "
MsgErrorLead == S(<<
    "E", "r", "r", "o", "r", ":", " " >>)

\* line 517: ": "
MsgColon == S(<<
    ":", " " >>)

\* line 527: "\nPlots saved to files: "
MsgPlotsSaved == S(<<
    "\n", "P", "l", "o", "t", "s", " ", "s", "a", "v", "e", "d", " ", "t",
    "o", " ", "f", "i", "l", "e", "s", ":", " " >>)

\* line 527: ", "
MsgPlotSep == S(<<
    ",", " " >>)

\* line 495: "plot_"
PlotPrefix == S(<<
    "p", "l", "o", "t", "_" >>)

\* line 495: ".png"
PlotSuffix == S(<<
    ".", "p", "n", "g" >>)

\* ------------------------------------------------------------------------
\* Policy tables of the sandbox script
\* ------------------------------------------------------------------------

\* lines 111-227: allowed_modules_and_packages, each name as its characters
ALLOWED_PACKAGES == {
  <<"a","b","c">>,
  <<"a","p","i">>,
  <<"a","s","t","r","o","i","d">>,
  <<"a","s","t","t","o","k","e","n","s">>,
  <<"b","a","b","e","l">>,
  <<"b","a","c","k","p","o","r","t","s","_","a","b","c">>,
  <<"b","r","o","t","l","i">>,
  <<"b","r","o","t","l","i","c","f","f","i">>,
  <<"c","e","r","t","i","f","i">>,
  <<"c","h","a","r","d","e","t">>,
  <<"c","h","a","r","s","e","t","_","n","o","r","m","a","l","i","z","e","r">>,
  <<"c","o","d","e","c","s">>,
  <<"c","o","l","l","e","c","t","i","o","n","s">>,
  <<"c","o","l","o","r","a","m","a">>,
  <<"c","o","m","m">>,
  <<"c","P","i","c","k","l","e">>,
  <<"c","t","a","g","s">>,
  <<"c","y","c","l","e","r">>,
  <<"c","y","t","h","o","n">>,
  <<"C","y","t","h","o","n">>,
  <<"d","a","t","e","t","i","m","e">>,
  <<"d","a","t","e","u","t","i","l">>,
  <<"d","e","c","o","r","a","t","o","r">>,
  <<"d","e","f","u","s","e","d","x","m","l">>,
  <<"d","o","c","r","e","p","r">>,
  <<"d","o","c","u","t","i","l","s">>,
  <<"e","x","e","c","u","t","i","n","g">>,
  <<"f","o","n","t","T","o","o","l","s">>,
  <<"f","u","n","c","t","o","o","l","s">>,
  <<"g","e","n","e","r","i","c","p","a","t","h">>,
  <<"g","e","o","p","a","n","d","a","s">>,
  <<"g","i">>,
  <<"i","d","n","a">>,
  <<"i","m","p","o","r","t","l","i","b">>,
  <<"i","o">>,
  <<"I","P","y","t","h","o","n">>,
  <<"i","p","y","w","i","d","g","e","t","s">>,
  <<"j","e","d","i">>,
  <<"j","i","n","j","a","2">>,
  <<"j","s","o","n">>,
  <<"k","i","w","i","s","o","l","v","e","r">>,
  <<"L","e","v","e","n","s","h","t","e","i","n">>,
  <<"l","o","g","g","i","n","g">>,
  <<"m","a","r","k","u","p","s","a","f","e">>,
  <<"m","a","t","p","l","o","t","l","i","b">>,
  <<"m","i","m","e","t","y","p","e","s">>,
  <<"m","p","l","_","t","o","o","l","k","i","t","s">>,
  <<"m","p","l","_","t","o","o","l","k","i","t","s",".","b","a","s","e","m","a","p">>,
  <<"m","s","v","c","r","t">>,
  <<"n","e","t","w","o","r","k","x">>,
  <<"n","t">>,
  <<"n","t","p","a","t","h">>,
  <<"n","u","m","p","y">>,
  <<"o","p","e","n","p","y","x","l">>,
  <<"o","s">>,
  <<"p","a","c","k","a","g","i","n","g">>,
  <<"p","a","n","d","a","s">>,
  <<"p","a","r","s","o">>,
  <<"p","a","t","h","l","i","b">>,
  <<"p","a","t","s","y">>,
  <<"P","I","L">>,
  <<"p","i","c","k","l","e","5">>,
  <<"p","l","o","t","l","y">>,
  <<"p","n","g">>,
  <<"p","o","s","i","x","p","a","t","h">>,
  <<"p","r","o","m","p","t","_","t","o","o","l","k","i","t">>,
  <<"p","u","r","e","_","e","v","a","l">>,
  <<"p","y","a","r","r","o","w">>,
  <<"p","y","d","a","n","t","i","c">>,
  <<"p","y","g","m","e","n","t","s">>,
  <<"p","y","p","a","r","s","i","n","g">>,
  <<"p","y","p","r","o","j">>,
  <<"P","y","Q","t","5">>,
  <<"P","y","Q","t","6">>,
  <<"P","y","S","i","d","e","2">>,
  <<"P","y","S","i","d","e","6">>,
  <<"p","y","t","z">>,
  <<"q","r","c","o","d","e">>,
  <<"r","a","n","d","o","m">>,
  <<"r","a","p","i","d","f","u","z","z">>,
  <<"r","e">>,
  <<"r","e","q","u","e","s","t","s">>,
  <<"r","u","n","p","y">>,
  <<"s","c","i","k","i","t","s">>,
  <<"s","c","i","p","y">>,
  <<"s","e","a","b","o","r","n">>,
  <<"s","h","a","p","e","l","y">>,
  <<"s","i","m","p","l","e","j","s","o","n">>,
  <<"s","i","x">>,
  <<"s","k","l","e","a","r","n">>,
  <<"s","k","s","p","a","r","s","e">>,
  <<"s","o","c","k","s">>,
  <<"s","p","h","i","n","x">>,
  <<"s","t","a","c","k","_","d","a","t","a">>,
  <<"s","t","a","t">>,
  <<"s","t","a","t","s","m","o","d","e","l","s">>,
  <<"s","v","g","w","r","i","t","e">>,
  <<"s","y","m","p","y">>,
  <<"t","a","b","u","l","a","t","e">>,
  <<"t","e","x","t","w","r","a","p">>,
  <<"t","k","i","n","t","e","r">>,
  <<"t","q","d","m">>,
  <<"t","r","a","i","t","l","e","t","s">>,
  <<"t","y","p","i","n","g">>,
  <<"t","y","p","i","n","g","_","e","x","t","e","n","s","i","o","n","s">>,
  <<"u","a","r","r","a","y">>,
  <<"u","r","l","l","i","b","2">>,
  <<"u","r","l","l","i","b","3">>,
  <<"w","c","w","i","d","t","h">>,
  <<"w","e","a","k","r","e","f">>,
  <<"w","i","n","r","e","g">>,
  <<"w","x">>,
  <<"z","i","p","i","m","p","o","r","t">>,
  <<"z","l","i","b">>,
  <<"z","s","t","a","n","d","a","r","d">>
}

\* lines 384-393: modules exempt from auto-installation
exceptions == {
  <<"n","t">>,
  <<"w","i","n","r","e","g">>,
  <<"m","s","v","c","r","t">>,
  <<"c","P","i","c","k","l","e">>,
  <<"p","i","c","k","l","e","5">>,
  <<"u","r","l","l","i","b","2">>,
  <<"s","c","i","k","i","t","s">>,
  <<"s","k","s","p","a","r","s","e">>
}

\* lines 315-324: import name -> pip package name, as a set of pairs
PACKAGE_NAME_OVERRIDES == {
  << <<"b","s","4">>,
     <<"b","e","a","u","t","i","f","u","l","s","o","u","p","4">> >>,
  << <<"P","I","L">>,
     <<"P","i","l","l","o","w">> >>,
  << <<"y","a","m","l">>,
     <<"P","y","Y","A","M","L">> >>,
  << <<"s","c","i","k","i","t","s",".","u","m","f","p","a","c","k">>,
     <<"s","c","i","k","i","t","-","u","m","f","p","a","c","k">> >>,
  << <<"s","k","s","p","a","r","s","e",".","c","h","o","l","m","o","d">>,
     <<"s","c","i","k","i","t","-","s","p","a","r","s","e">> >>,
  << <<"p","n","g">>,
     <<"p","y","p","n","g">> >>,
  << <<"m","p","l","_","t","o","o","l","k","i","t","s",".","b","a","s","e","m","a","p">>,
     <<"b","a","s","e","m","a","p">> >>,
  << <<"m","p","l","_","t","o","o","l","k","i","t","s">>,
     <<"m","a","t","p","l","o","t","l","i","b">> >>
}

\* ------------------------------------------------------------------------
\* Python str operations on module names (plain character sequences)
\* ------------------------------------------------------------------------

\* name.startswith(prefix)
NameStartsWith(s, p) == Len(s) >= Len(p) /\ SubSeq(s, 1, Len(p)) = p

\* positions of the dots of a name
Dots(s) == {i \in 1..Len(s) : s[i] = "."}

\* name.split(".")[0]
FirstSegment(s) == IF Dots(s) = {} THEN s ELSE SubSeq(s, 1, Min(Dots(s)) - 1)

\* "-".join(name.split(".")[:2])
FirstTwoJoined(s) ==
  IF Dots(s) = {} THEN s
  ELSE LET d1   == Min(Dots(s))
           rest == SubSeq(s, d1 + 1, Len(s))
       IN  SubSeq(s, 1, d1 - 1) \o <<"-">> \o FirstSegment(rest)

\* pkg.rsplit(".", k)[0]
RECURSIVE RSplitHead(_, _)
RSplitHead(s, k) ==
  IF k <= 0 \/ Dots(s) = {} THEN s
  ELSE RSplitHead(SubSeq(s, 1, Max(Dots(s)) - 1), k - 1)

\* the text of a name, for f-strings
T(s) == S(s)

\* print(text): the text and a newline
Line(t) == Cat(t, Rep("\n", 1))

\* an empty override table
OverrideNone(key) == key

\* dict.get(key, key) on the override table
Override(key) ==
  IF \E p \in PACKAGE_NAME_OVERRIDES : p[1] = key
  THEN (CHOOSE p \in PACKAGE_NAME_OVERRIDES : p[1] = key)[2]
  ELSE key

\* ------------------------------------------------------------------------
\* The interpreter the child runs on (what the sandbox script observes)
\* ------------------------------------------------------------------------

\* line 242: sys.builtin_module_names (the ones the model imports)
STANDARD_LIB_MODULES ==
  { <<"s","y","s">>, <<"b","u","i","l","t","i","n","s">>,
    <<"t","i","m","e">>, <<"p","o","s","i","x">> }

\* What importlib.util.find_spec(package_name) can answer: no spec, a
\* ModuleNotFoundError (missing parent package), a spec without origin, or
\* a spec whose origin is one of these kinds of location.
OriginKinds ==
  { "stdlib_file",        \* <STDLIB_PATH>/os.py
    "site_under_stdlib",  \* <STDLIB_PATH>/site-packages/x/__init__.py
    "venv_site",          \* <venv>/lib/python3.11/site-packages/x.py
    "dist_packages",      \* /usr/lib/python3/dist-packages/x.py
    "local_lib",          \* /opt/app/lib/python/x.py
    "built-in",
    "frozen",
    "other_path" }        \* <temp_dir>/x.py

FindSpecResults == {"None", "ModuleNotFoundError", "origin_None"} \cup OriginKinds

\* no origin is under STDLIB_PATH
OriginUnderStdlibPathNever(o) == FALSE

\* spec.origin.startswith(STDLIB_PATH)
OriginUnderStdlibPath(o) == o \in {"stdlib_file", "site_under_stdlib"}

\* "site-packages" in spec.origin
OriginHasSitePackages(o) == o \in {"site_under_stdlib", "venv_site"}

\* "dist-packages" in spec.origin
OriginHasDistPackages(o) == o = "dist_packages"

\* "/lib/python" in spec.origin
OriginHasLibPython(o) ==
  o \in {"stdlib_file", "site_under_stdlib", "venv_site", "dist_packages",
         "local_lib"}

\* ------------------------------------------------------------------------
\* Functions of the sandbox script
\* ------------------------------------------------------------------------

\* is_standard_library without the site-packages test
is_standard_library_any_lib(package_name, fs) ==
  IF NameStartsWith(package_name, <<"_">>) THEN TRUE
  ELSE IF package_name \in STANDARD_LIB_MODULES THEN TRUE
  ELSE IF fs = "ModuleNotFoundError" THEN FALSE
  ELSE IF fs \in {"None", "origin_None"} THEN FALSE
  ELSE \/ OriginUnderStdlibPath(fs)
       \/ fs = "built-in"
       \/ OriginHasLibPython(fs)

\* is_standard_library(package_name); fs is what find_spec answers
is_standard_library(package_name, fs) ==
  IF NameStartsWith(package_name, <<"_">>) THEN TRUE
  ELSE IF package_name \in STANDARD_LIB_MODULES THEN TRUE
  ELSE IF fs = "ModuleNotFoundError" THEN FALSE
  ELSE IF fs \in {"None", "origin_None"} THEN FALSE
  ELSE \/ OriginUnderStdlibPath(fs)
       \/ fs = "built-in"
       \/ /\ ~OriginHasSitePackages(fs)
          /\ ~OriginHasDistPackages(fs)
          /\ OriginHasLibPython(fs)

\* str(e) of a failed pip run (abbreviated)
PipFailure == S(<< "e", "x", "i", "t", " ", "1" >>)

\* install_package without the second candidate
install_package_once(name, alt_name, ok1, ok2) ==
  LET first == Line(Cat(MsgInstallingLead, Cat(T(name), MsgMomentTail)))
      fail1 == Line(Cat(MsgFailedLead,
                        Cat(T(name), Cat(MsgFailedTail, PipFailure))))
  IN  IF ok1
      THEN [success |-> TRUE,
            out     |-> Cat(first, Line(Cat(MsgInstalledLead, T(name)))),
            pip     |-> <<name>>]
      ELSE [success |-> FALSE, out |-> Cat(first, fail1), pip |-> <<name>>]

\* install_package(name, alt_name); ok1 and ok2 tell whether pip succeeds
\* on the first and on the second candidate.  Returns the value returned,
\* the text printed and the names pip was run with.
install_package(name, alt_name, ok1, ok2) ==
  LET first == Line(Cat(MsgInstallingLead, Cat(T(name), MsgMomentTail)))
      fail1 == Line(Cat(MsgFailedLead,
                        Cat(T(name), Cat(MsgFailedTail, PipFailure))))
      try2  == Line(Cat(MsgTryingLead, Cat(T(alt_name), MsgMomentTail)))
      fail2 == Line(Cat(MsgFailedLead,
                        Cat(T(alt_name), Cat(MsgFailedTail, PipFailure))))
  IN  IF ok1
      THEN [success |-> TRUE,
            out     |-> Cat(first, Line(Cat(MsgInstalledLead, T(name)))),
            pip     |-> <<name>>]
      ELSE IF name # alt_name
      THEN IF ok2
           THEN [success |-> TRUE,
                 out     |-> Cat(first, Cat(fail1, Cat(try2,
                               Line(Cat(MsgInstalledLead, T(alt_name)))))),
                 pip     |-> <<name, alt_name>>]
           ELSE [success |-> FALSE,
                 out     |-> Cat(first, Cat(fail1, Cat(try2, fail2))),
                 pip     |-> <<name, alt_name>>]
      ELSE [success |-> FALSE, out |-> Cat(first, fail1), pip |-> <<name>>]

mpl_toolkits == <<"m","p","l","_","t","o","o","l","k","i","t","s">>

mpl_toolkits_basemap == mpl_toolkits \o <<".","b","a","s","e","m","a","p">>

matplotlib == <<"m","a","t","p","l","o","t","l","i","b">>

org_python_core == <<"o","r","g",".","p","y","t","h","o","n",".","c","o","r","e">>

\* get_top_level_package(name)
get_top_level_package(name) ==
  IF NameStartsWith(name, mpl_toolkits_basemap) THEN mpl_toolkits_basemap
  ELSE IF NameStartsWith(name, mpl_toolkits) THEN matplotlib
  ELSE FirstSegment(name)

\* is_package_installed(package_name); fs is what find_spec answers
is_package_installed(package_name, fs) ==
  IF fs = "ModuleNotFoundError" THEN FALSE ELSE fs # "None"

\* The globals_dict argument of an import request: None, an empty dict, a
\* dict without "__package__", or a dict whose "__package__" is None or a
\* (possibly empty) package name.
GlobalsNone == [kind |-> "None", pkg |-> <<>>]

GlobalsEmpty == [kind |-> "empty", pkg |-> <<>>]

GlobalsNoPackage == [kind |-> "no_package", pkg |-> <<>>]

GlobalsPackageNone == [kind |-> "package_None", pkg |-> <<>>]

GlobalsPackage(p) == [kind |-> "package", pkg |-> p]

\* repr(globals_dict), abbreviated to the "__package__" entry
GlobalsRepr(g) ==
  IF g.kind \in {"None", "empty"} THEN S(<<"{", "}">>)
  ELSE IF g.kind = "no_package" THEN S(<<"{", ".", ".", ".", "}">>)
  ELSE IF g.kind = "package_None" THEN S(<<"{", "N", "o", "n", "e", "}">>)
  ELSE Cat(S(<<"{", "'">>), Cat(T(g.pkg), S(<<"'", "}">>)))

\* the name the policy is applied to (lines 358-363)
rel_import_name(name, globals_dict, level) ==
  IF /\ level > 0
     /\ globals_dict.kind \in {"package_None", "package"}
     /\ globals_dict.kind = "package"
     /\ globals_dict.pkg # <<>>
  THEN RSplitHead(globals_dict.pkg, level - 1) \o <<".">> \o name
  ELSE name

\* secure_import(name, globals_dict, locals_dict, fromlist, level).
\* fs: the answer of find_spec for the top-level package; ok1, ok2: the
\* outcome of the pip runs.  ret is "original" when the request is handed
\* to original_import, "None" when None is returned and "ImportError" when
\* the Blocked import error is raised; out is the text printed, pip the
\* names pip was run with.
secure_import(name, globals_dict, level, fs, ok1, ok2) ==
  LET package_name     == get_top_level_package(
                            rel_import_name(name, globals_dict, level))
      pip_package_name == Override(package_name)
      pip_full_name    == Override(name)
      inst == install_package(pip_package_name,
                              FirstTwoJoined(pip_full_name), ok1, ok2)
  IN  IF package_name = <<>>
      THEN [ret |-> "None", package_name |-> package_name, pip |-> <<>>,
            out |-> Line(Cat(MsgEmptyPackage, GlobalsRepr(globals_dict)))]
      ELSE IF is_standard_library(package_name, fs)
      THEN [ret |-> "original", package_name |-> package_name,
            pip |-> <<>>, out |-> <<>>]
      ELSE IF package_name \in ALLOWED_PACKAGES
      THEN IF ~is_package_installed(package_name, fs)
              /\ package_name \notin exceptions
           THEN [ret |-> "original", package_name |-> package_name,
                 pip |-> inst.pip,
                 out |-> Cat(Line(Cat(MsgNotFoundLead,
                                      Cat(T(package_name), MsgNotFoundTail))),
                             Cat(inst.out,
                                 IF inst.success THEN <<>>
                                 ELSE Line(Cat(MsgNotFoundLead,
                                               Cat(T(pip_package_name),
                                                   MsgNotAvailableTail)))))]
           ELSE [ret |-> "original", package_name |-> package_name,
                 pip |-> <<>>, out |-> <<>>]
      ELSE IF name = org_python_core
      THEN [ret |-> "None", package_name |-> package_name, pip |-> <<>>,
            out |-> <<>>]
      ELSE [ret |-> "ImportError", package_name |-> package_name,
            pip |-> <<>>,
            out |-> Line(Cat(MsgSecurityImportLead,
                             Cat(T(package_name),
                                 Cat(MsgFromLead,
                                     Cat(T(name), MsgSecurityImportTail)))))]

\* line 408: the start of the message of the ImportError
MsgBlockedImport == S(<<
    "B", "l", "o", "c", "k", "e", "d", " ", "i", "m", "p", "o", "r", "t" >>)

\* an ImportError without the words of line 408
BlockedImportMessageBare(package_name, name) ==
  Cat(T(package_name), Cat(MsgFromLead, T(name)))

\* str(e) of the ImportError of line 408
BlockedImportMessage(package_name, name) ==
  Cat(MsgBlockedLead,
      Cat(T(package_name), Cat(MsgFromLead, Cat(T(name), MsgBlockedTail))))

\* file writing switched off
enable_file_write_off == FALSE

\* line 230: enable_file_write, formatted into ENABLE_FILE_WRITE (line 246)
enable_file_write == TRUE

\* "w" in mode or "a" in mode or "+" in mode
IsWriteMode(mode) == \E i \in 1..Len(mode) : mode[i] \in {"w", "a", "+"}

\* safe_open(file, mode): ret is "None" when the request is refused and
\* "original" when it is handed to original_open; out is the text printed
safe_open(mode) ==
  IF mode # <<>> /\ IsWriteMode(mode)
  THEN [ret |-> "None", out |-> Line(MsgWriteDenied)]
  ELSE [ret |-> "original", out |-> <<>>]

\* ------------------------------------------------------------------------
\* More string literals (text produced by the Python runtime, abbreviated)
\* ------------------------------------------------------------------------

MsgTraceback == S(<<
    "T", "r", "a", "c", "e", "b", "a", "c", "k", " ", "(", "m", "o", "s",
    "t", " ", "r", "e", "c", "e", "n", "t", " ", "c", "a", "l", "l", " ",
    "l", "a", "s", "t", ")", ":" >>)

MsgNoModuleLead == S(<<
    "N", "o", " ", "m", "o", "d", "u", "l", "e", " ", "n", "a", "m", "e",
    "d", " ", "'" >>)

MsgQuote == S(<<
    "'" >>)

MsgPltUndefined == S(<<
    "n", "a", "m", "e", " ", "'", "p", "l", "t", "'", " ", "i", "s", " ",
    "n", "o", "t", " ", "d", "e", "f", "i", "n", "e", "d" >>)

MsgSyntaxError == S(<<
    "S", "y", "n", "t", "a", "x", "E", "r", "r", "o", "r", ":", " ", "i",
    "n", "v", "a", "l", "i", "d", " ", "s", "y", "n", "t", "a", "x" >>)

HarnessFailure == S(<<
    "[", "E", "r", "r", "n", "o", " ", "2", "8", "]", " ", "N", "o", " ",
    "s", "p", "a", "c", "e", " ", "l", "e", "f", "t", " ", "o", "n", " ",
    "d", "e", "v", "i", "c", "e" >>)

\* the names of the exception classes the model raises
ImportErrorName == S(<<"I","m","p","o","r","t","E","r","r","o","r">>)

ModuleNotFoundErrorName ==
  S(<<"M","o","d","u","l","e","N","o","t","F","o","u","n","d",
      "E","r","r","o","r">>)

ExceptionName == S(<<"E","x","c","e","p","t","i","o","n">>)

NameErrorName == S(<<"N","a","m","e","E","r","r","o","r">>)

TypeErrorName == S(<<"T","y","p","e","E","r","r","o","r">>)

FileNotFoundErrorName ==
  S(<<"F","i","l","e","N","o","t","F","o","u","n","d","E","r","r","o","r">>)

\* ------------------------------------------------------------------------
\* Program constants of execute_code
\* ------------------------------------------------------------------------

\* line 33: input_data.get("timeout", 20)
DefaultTimeout == 20

\* line 33: min(..., 40)
MaxTimeout == 40

\* lines 94-95: the output limit
MaxOutput == 10000

\* ------------------------------------------------------------------------
\* Inputs
\* ------------------------------------------------------------------------

\* A caller snippet is text over whitespace and two statement symbols:
\* "stmt" is a well-formed statement (what it does is decided when the
\* child executes it), "bad" is a line that does not parse.
RECURSIVE Snippet(_)
Snippet(n) == IF n = 1 THEN <<"stmt">> ELSE Snippet(n - 1) \o <<"\n", "stmt">>

\* values of input_data["code"]: key absent, None, or a string
CodeAbsent == [t |-> "absent", v |-> <<>>]

CodeNone == [t |-> "None", v |-> <<>>]

CodeStr(text) == [t |-> "str", v |-> text]

BlankTexts == { <<>>, S(<<" ">>), S(<<"\n", " ", " ", "\t", "\n">>) }

CodeInputs ==
  {CodeAbsent, CodeNone}
    \cup {CodeStr(b) : b \in BlankTexts}
    \cup {CodeStr(S(Snippet(n))) : n \in 1..MaxStmts}
    \cup {CodeStr(S(<<"bad">>)),
          CodeStr(S(<<" ", "\n", "stmt", "\n", "\n">>))}

\* values of input_data["timeout"]: key absent, a number, a string that
\* float() does not parse, or None
TimeoutAbsent == [t |-> "absent", v |-> 0]

TimeoutNum(n) == [t |-> "num", v |-> n]

TimeoutInputs ==
  {TimeoutAbsent}
    \cup {TimeoutNum(n) : n \in {0, 40, 100}}
    \cup {[t |-> "badstr", v |-> 0], [t |-> "None", v |-> 0]}

\* values of input_data["save_plots"]
SavePlotsInputs == {"absent", "False"}

InputData == [code : CodeInputs, timeout : TimeoutInputs,
              save_plots : SavePlotsInputs]

\* the statements of a snippet, in order
RECURSIVE Statements(_)
Statements(text) ==
  IF text = <<>> THEN <<>>
  ELSE LET c == text[1][1]
           rest == IF text[1][2] > 1
                   THEN << <<c, text[1][2] - 1>> >> \o Tail(text)
                   ELSE Tail(text)
       IN  IF c \in Whitespace THEN Statements(Tail(text))
           ELSE <<c>> \o Statements(rest)

\* ------------------------------------------------------------------------
\* execute_code, lines 32-34
\* ------------------------------------------------------------------------

\* float(x) raises for None and for a string that is no number
FloatRaises(x) ==
  IF x.t = "badstr" THEN "ValueError"
  ELSE IF x.t = "None" THEN "TypeError"
  ELSE "none"

\* float(input_data.get("timeout", 20))
PyFloat(x) == IF x.t = "absent" THEN DefaultTimeout ELSE x.v

\* max in the place of min
PyMax(a, b) == IF b > a THEN b ELSE a

\* Python's min(a, b): a unless b < a
PyMin(a, b) == IF b < a THEN b ELSE a

\* line 33
EffectiveTimeout(x) == PyMin(PyFloat(x), MaxTimeout)

\* the code taken without strip()
ExtractCodeUnstripped(c) == c.v

\* line 32: input_data.get("code", "").strip()
ExtractCode(c) == Strip(c.v)

\* line 34: input_data.get("save_plots", True)
ExtractSavePlots(s) == s # "False"

\* lines 94-95, the last character of the limit dropped
TruncateShort(text) ==
  IF TLen(text) > MaxOutput
  THEN Cat(Slice(text, MaxOutput - 1), TruncationSuffix)
  ELSE text

\* lines 94-95
Truncate(text) ==
  IF TLen(text) > MaxOutput
  THEN Cat(Slice(text, MaxOutput), TruncationSuffix)
  ELSE text

\* str.endswith(suffix)
EndsWith(t, p) ==
  TLen(t) >= TLen(p) /\ SliceFrom(t, TLen(t) - TLen(p)) = p

\* lines 84-86: the plot files os.listdir(".") shows
PlotFiles(files) ==
  {f \in files : StartsWith(f, PlotPrefix) /\ EndsWith(f, PlotSuffix)}

\* the plot notice put before the Errors section
AssembleNoticeFirst(stdout, stderr, plots, files) ==
  LET o1 == IF stdout # <<>> THEN Strip(stdout) ELSE NoOutputMarker
      o2 == IF plots /\ PlotFiles(files) # {}
            THEN Cat(o1, Cat(PlotNoticeLead,
                             Cat(Str(Cardinality(PlotFiles(files))),
                                 PlotNoticeTail)))
            ELSE o1
  IN  IF stderr # <<>>
      THEN Cat(o2, Cat(ErrorsSeparator, Strip(stderr)))
      ELSE o2

\* lines 73-88: the output assembled from the child's streams
Assemble(stdout, stderr, plots, files) ==
  LET o1 == IF stdout # <<>> THEN Strip(stdout) ELSE NoOutputMarker
      o2 == IF stderr # <<>>
            THEN Cat(o1, Cat(ErrorsSeparator, Strip(stderr)))
            ELSE o1
  IN  IF plots /\ PlotFiles(files) # {}
      THEN Cat(o2, Cat(PlotNoticeLead,
                       Cat(Str(Cardinality(PlotFiles(files))),
                           PlotNoticeTail)))
      ELSE o2

\* ------------------------------------------------------------------------
\* State
\* ------------------------------------------------------------------------

VARIABLES
  pc,              \* where execute_code is
  input_data,      \* the argument of the current call
  code,            \* local: the stripped code
  timeout,         \* local: the timeout handed to subprocess.run
  save_plots,      \* local
  temp_dir,        \* "none", "exists" or "removed"
  temp_files,      \* the files in the temporary directory
  output,          \* local: the output as assembled by lines 73-88
  result,          \* the (content, error) pair returned
  caught,          \* the except clause that ended the try block, or "none"
  raised,          \* the exception that left execute_code, or "none"
  cwd,             \* the plot files in the current working directory
  child,           \* "none", "running", "exited" or "killed"
  cpc,             \* where the child is in the sandbox script
  todo,            \* the statements of the snippet not yet executed
  cap_out,         \* the StringIO installed as sys.stdout
  cap_err,         \* the StringIO installed as sys.stderr
  real_out,        \* what the child wrote to its stdout pipe
  real_err,        \* what the child wrote to its stderr pipe
  builtins_import, \* builtins.__import__: "original" or "secure_import"
  builtins_open,   \* builtins.open: "original" or "safe_open"
  streams,         \* sys.stdout/sys.stderr: "original" or "StringIO"
  PLOT_ENABLED,
  figs,            \* number of open figures
  last_import,     \* the latest import request and its outcome
  last_open,       \* the latest open request and its outcome
  saved_plots,     \* main(): the number of files save_current_figures saved
  env,             \* os.environ of the child: pairs <<name, value>>
  peer,            \* another call of execute_code in the same process
  conversation,    \* the conversation list of each agent (0: Agent.run)
  run,             \* Agent.run: position, message, tool_results, block index
  read_user_input, \* Agent.run: local
  calls,           \* the number of run_inference calls made
  seen,            \* the conversation handed to the latest run_inference
  next_id,         \* the id the API gives to its next tool_use block
  active_sessions, \* web_app.py: session id -> WebAgent
  connected,       \* the session ids whose socket is connected
  agents,          \* the number of WebAgent objects created
  threads,         \* the threads started by handle_message
  last_event,      \* the latest socket event handled
  files,           \* the file system edit_file works on
  edit_input,      \* the input_data of the latest edit_file call
  edit_result      \* what the latest edit_file call returned

\* ------------------------------------------------------------------------
\* State of the agent (src/main.py), of its edit_file tool and of the web
\* interface (src/web_app.py)
\* ------------------------------------------------------------------------

\* bound on the run_inference calls
MaxCalls == 2

\* bound on the threads handle_message starts
MaxThreads == 2

\* bound on the WebAgent objects handle_connect creates
MaxAgents == 2

\* bound on the length of a file's text
MaxContent == 3

\* the values of request.sid
Sessions == {"sid1", "sid2"}

Threads == 1..MaxThreads

\* the conversation lists: 0 is the local list of Agent.run, the others
\* are the self.conversation of the WebAgent objects
Agents == 0..MaxAgents

NoMessage == [role |-> "none", content |-> <<>>]

\* a thread that has not been started
NoThread ==
  [agent |-> 0, pc |-> "none", message |-> NoMessage, tool_results |-> <<>>,
   i |-> 0]

NoEvent == [event |-> "none", sid |-> ""]

\* the paths of the file system
FsPaths == {"f.txt", "g.txt", "d"}

File(text) == [kind |-> "file", text |-> text]

NoFile == [kind |-> "absent", text |-> <<>>]

Directory == [kind |-> "dir", text |-> <<>>]

\* a text file, a name that does not exist and a directory
InitialFiles ==
  [p \in FsPaths |->
     IF p = "f.txt" THEN File(<<"a", "b", "a">>)
     ELSE IF p = "d" THEN Directory
     ELSE NoFile]

NoEdit == [keys |-> {}, path |-> "", old_str |-> <<>>, new_str |-> <<>>]

\* (response, err) of a tool function; err is "None" or str(err)
Returned(response, err) == [response |-> response, err |-> err]

\* before any call: nothing started, no session, an empty conversation
AppInit ==
  /\ conversation = [a \in Agents |-> <<>>]
  /\ run = [pc |-> "top", message |-> NoMessage, tool_results |-> <<>>,
            i |-> 0]
  /\ read_user_input = TRUE
  /\ calls = 0
  /\ seen = <<>>
  /\ next_id = 1
  /\ active_sessions = [s \in {} |-> 0]
  /\ connected = {}
  /\ agents = 0
  /\ threads = [t \in Threads |-> NoThread]
  /\ last_event = NoEvent
  /\ files = InitialFiles
  /\ edit_input = NoEdit
  /\ edit_result = Returned("", "None")

inferenceVars == <<calls, seen, next_id>>

runVars == <<run, read_user_input>>

webVars == <<active_sessions, connected, agents, threads, last_event>>

editVars == <<files, edit_input, edit_result>>

appVars == <<conversation, inferenceVars, runVars, webVars, editVars>>

execVars == <<pc, input_data, code, timeout, save_plots, temp_dir, temp_files,
              output, result, caught, raised, cwd, child, cpc, todo, cap_out,
              cap_err, real_out, real_err, builtins_import, builtins_open,
              streams, PLOT_ENABLED, figs, last_import, last_open,
              saved_plots, env, peer>>

vars == <<execVars, appVars>>

callVars == <<input_data, code, timeout, save_plots>>

\* the state of execute_code that the child does not touch
parentVars == <<pc, callVars, temp_dir, temp_files, output, result, caught,
                raised>>

childVars == <<child, cpc, todo, cap_out, cap_err, real_out, real_err,
               builtins_import, builtins_open, streams, PLOT_ENABLED, figs,
               last_import, last_open, saved_plots, env>>

\* (content, None)
Ok(content) == [content |-> content, has_error |-> FALSE, error |-> <<>>]

\* ("", Exception(message))
Err(message) == [content |-> <<>>, has_error |-> TRUE, error |-> message]

\* line 37
OnNoCode == Ok(NoCodeMsg)

\* the message returned without the prefix
OnExceptionBare(e) == Err(e)

\* lines 102-103; e is str(e)
OnException(e) == Err(Cat(ErrorExecutingPrefix, e))

\* TimeoutExpired handled by the general except clause
OnTimeoutExpiredGeneral == OnException(TimedOutMsg)

\* lines 99-100
OnTimeoutExpired == Ok(TimedOutMsg)

NoImport ==
  [name |-> <<>>, globals_dict |-> GlobalsNone, level |-> 0, fs |-> "None",
   hook |-> "none", ret |-> "none", package_name |-> <<>>, pip |-> <<>>,
   pip_env |-> {}, pip_ok |-> <<>>, error |-> <<>>]

NoOpen == [mode |-> <<>>, omitted |-> FALSE, hook |-> "none",
           ret |-> "none", existed |-> FALSE, created |-> FALSE]

NoInput == [code |-> CodeAbsent, timeout |-> TimeoutAbsent,
            save_plots |-> "absent"]

Init ==
  /\ pc = "idle"
  /\ input_data = NoInput
  /\ code = <<>>
  /\ timeout = 0
  /\ save_plots = TRUE
  /\ temp_dir = "none"
  /\ temp_files = {}
  /\ output = <<>>
  /\ result = Ok(<<>>)
  /\ caught = "none"
  /\ raised = "none"
  /\ cwd = {}
  /\ child = "none"
  /\ cpc = "none"
  /\ todo = <<>>
  /\ cap_out = <<>>
  /\ cap_err = <<>>
  /\ real_out = <<>>
  /\ real_err = <<>>
  /\ builtins_import = "original"
  /\ builtins_open = "original"
  /\ streams = "original"
  /\ PLOT_ENABLED = FALSE
  /\ figs = 0
  /\ last_import = NoImport
  /\ last_open = NoOpen
  /\ saved_plots = 0
  /\ env = {}
  /\ peer = "none"
  /\ AppInit

\* the child-side state before a child exists
NoChild ==
  /\ child' = "none"
  /\ cpc' = "none"
  /\ todo' = <<>>
  /\ cap_out' = <<>>
  /\ cap_err' = <<>>
  /\ real_out' = <<>>
  /\ real_err' = <<>>
  /\ builtins_import' = "original"
  /\ builtins_open' = "original"
  /\ streams' = "original"
  /\ PLOT_ENABLED' = FALSE
  /\ figs' = 0
  /\ last_import' = NoImport
  /\ last_open' = NoOpen
  /\ saved_plots' = 0
  /\ env' = {}

\* ------------------------------------------------------------------------
\* execute_code
\* ------------------------------------------------------------------------

\* A call of execute_code(input_data), lines 32-37: parameter extraction
\* and the check for empty code.  None.strip() and float() of a value that
\* is no number raise before the try block is entered.
Call(d) ==
  /\ pc = "idle"
  /\ input_data' = d
  /\ temp_dir' = "none"
  /\ temp_files' = {}
  /\ output' = <<>>
  /\ caught' = "none"
  /\ NoChild
  /\ UNCHANGED <<cwd, peer, appVars>>
  /\ IF d.code.t = "None"
     THEN /\ raised' = "AttributeError"
          /\ pc' = "raised"
          /\ result' = Ok(<<>>)
          /\ code' = <<>> /\ timeout' = 0 /\ save_plots' = TRUE
     ELSE IF FloatRaises(d.timeout) # "none"
     THEN /\ raised' = FloatRaises(d.timeout)
          /\ pc' = "raised"
          /\ result' = Ok(<<>>)
          /\ code' = ExtractCode(d.code)
          /\ timeout' = 0 /\ save_plots' = TRUE
     ELSE /\ raised' = "none"
          /\ code' = ExtractCode(d.code)
          /\ timeout' = EffectiveTimeout(d.timeout)
          /\ save_plots' = ExtractSavePlots(d.save_plots)
          /\ IF ExtractCode(d.code) = <<>>
             THEN pc' = "returned" /\ result' = OnNoCode
             ELSE pc' = "mkdtemp" /\ result' = Ok(<<>>)

\* The call is over: the caller has the result (or the exception) and
\* nothing of the call remains but the files it left in the current
\* directory.
Done ==
  /\ pc \in {"returned", "raised"}
  /\ pc' = "idle"
  /\ input_data' = NoInput
  /\ code' = <<>>
  /\ timeout' = 0
  /\ save_plots' = TRUE
  /\ temp_dir' = "none"
  /\ temp_files' = {}
  /\ output' = <<>>
  /\ result' = Ok(<<>>)
  /\ caught' = "none"
  /\ raised' = "none"
  /\ NoChild
  /\ UNCHANGED <<cwd, peer, appVars>>

\* os.environ of the process that calls execute_code
os_environ ==
  { <<"PATH", "/usr/bin">>, <<"HOME", "/root">>,
    <<"ANTHROPIC_API_KEY", "secret">>, <<"PYTHONPATH", "/app">> }

\* the child started with the environment of its parent
ChildEnvInherited ==
  os_environ \cup { <<"PYTHONUNBUFFERED", "1">> }

\* lines 64-67: the env argument of subprocess.run
ChildEnv == { <<"PYTHONPATH", "temp_dir">>, <<"PYTHONUNBUFFERED", "1">> }

\* the temporary directory is left where it is
cleanup_skipped(dir) == dir

\* line 41, the end of the with block: TemporaryDirectory.cleanup()
cleanup(dir) == IF dir = "exists" THEN "removed" ELSE dir

\* the child is left running
kill_skipped(c) == c

\* lines 57-71: subprocess.run kills the child when the wait is left by
\* an exception (TimeoutExpired or any other)
kill(c) == IF c = "running" THEN "killed" ELSE c

\* line 41: tempfile.TemporaryDirectory()
MakeTempDir ==
  /\ pc = "mkdtemp"
  /\ temp_dir' = "exists"
  /\ pc' = "write_script"
  /\ UNCHANGED <<appVars, peer, callVars, temp_files, output, result, caught, raised,
                 cwd, childVars>>

\* lines 43-46: the sandbox script is written
WriteScript ==
  /\ pc = "write_script"
  /\ temp_files' = temp_files \cup {"sandbox_script.py"}
  /\ pc' = "write_init"
  /\ UNCHANGED <<appVars, peer, callVars, temp_dir, output, result, caught, raised,
                 cwd, childVars>>

\* lines 49-50: the empty __init__.py
WriteInit ==
  /\ pc = "write_init"
  /\ temp_files' = temp_files \cup {"__init__.py"}
  /\ pc' = "spawn"
  /\ UNCHANGED <<appVars, peer, callVars, temp_dir, output, result, caught, raised,
                 cwd, childVars>>

\* lines 57-71: subprocess.run starts the child and waits for it
Spawn ==
  /\ pc = "spawn"
  /\ child' = "running"
  /\ cpc' = "start"
  /\ todo' = Statements(code)
  /\ env' = ChildEnv
  /\ pc' = "wait"
  /\ UNCHANGED <<appVars, peer, callVars, temp_dir, temp_files, output, result, caught,
                 raised, cwd, cap_out, cap_err, real_out, real_err,
                 builtins_import, builtins_open, streams, PLOT_ENABLED,
                 figs, last_import, last_open, saved_plots>>

\* lines 57-97: the child exited before the timeout.  The output is
\* assembled from its streams and from the plot files in the current
\* directory, the temporary directory is removed at the end of the with
\* block, and the output is truncated and returned.
RunReturns ==
  /\ pc = "wait"
  /\ child = "exited"
  /\ timeout > 0
  /\ output' = Assemble(real_out, real_err, save_plots, cwd)
  /\ temp_dir' = cleanup(temp_dir)
  /\ temp_files' = {}
  /\ result' = Ok(Truncate(output'))
  /\ pc' = "returned"
  /\ UNCHANGED <<appVars, peer, callVars, caught, raised, cwd, childVars>>

\* lines 99-100: subprocess.run raises TimeoutExpired after killing the
\* child; a timeout that is not positive expires at once.
TimeoutExpired ==
  /\ pc = "wait"
  /\ child = "running" \/ timeout <= 0
  /\ child' = kill(child)
  /\ temp_dir' = cleanup(temp_dir)
  /\ temp_files' = {}
  /\ caught' = "TimeoutExpired"
  /\ result' = OnTimeoutExpired
  /\ pc' = "returned"
  /\ UNCHANGED <<appVars, peer, callVars, output, raised, cwd, cpc, todo, cap_out,
                 cap_err, real_out, real_err, builtins_import,
                 builtins_open, streams, PLOT_ENABLED, figs, last_import,
                 last_open, saved_plots, env>>

\* lines 102-103: any other exception inside the try block: the temporary
\* directory cannot be created, a file cannot be written, the child cannot
\* be started, its output cannot be read or decoded, the current directory
\* cannot be listed.  (With a timeout that is not positive the wait raises
\* TimeoutExpired before it reads anything.)
HarnessFault ==
  /\ pc \in {"mkdtemp", "write_script", "write_init", "spawn", "wait"}
  /\ pc = "wait" => timeout > 0
  /\ child' = kill(child)
  /\ temp_dir' = cleanup(temp_dir)
  /\ temp_files' = {}
  /\ caught' = "Exception"
  /\ result' = OnException(HarnessFailure)
  /\ pc' = "returned"
  /\ UNCHANGED <<appVars, peer, callVars, output, raised, cwd, cpc, todo, cap_out,
                 cap_err, real_out, real_err, builtins_import,
                 builtins_open, streams, PLOT_ENABLED, figs, last_import,
                 last_open, saved_plots, env>>

\* ------------------------------------------------------------------------
\* The child process: the sandbox script of _create_sandbox_script
\* ------------------------------------------------------------------------

\* what original_import does with a request handed to it: the module loads
\* when find_spec found the package or pip has just installed it
Loads(fs, r, ok1, ok2) ==
  \/ fs \notin {"None", "ModuleNotFoundError"}
  \/ r.pip # <<>> /\ (ok1 \/ (Len(r.pip) = 2 /\ ok2))

MsgMissingMode == S(<<
    "s", "a", "f", "e", "_", "o", "p", "e", "n", "(", ")", " ", "m", "i",
    "s", "s", "i", "n", "g", " ", "1", " ", "r", "e", "q", "u", "i", "r",
    "e", "d", " ", "p", "o", "s", "i", "t", "i", "o", "n", "a", "l", " ",
    "a", "r", "g", "u", "m", "e", "n", "t", ":", " ", "'", "m", "o", "d",
    "e", "'" >>)

MsgNoSuchFile == S(<<
    "[", "E", "r", "r", "n", "o", " ", "2", "]", " ", "N", "o", " ", "s",
    "u", "c", "h", " ", "f", "i", "l", "e", " ", "o", "r", " ", "d", "i",
    "r", "e", "c", "t", "o", "r", "y", ":", " ", "'", "o", "u", "t", ".",
    "t", "x", "t", "'" >>)

\* str(e) of the ModuleNotFoundError of original_import
NoModuleMessage(name) == Cat(MsgNoModuleLead, Cat(T(name), MsgQuote))

\* traceback.print_exc(): the header line and the final line of the trace
Trace(kind, msg) ==
  Cat(Line(MsgTraceback), Line(Cat(kind, Cat(MsgColon, msg))))

\* line 517: print(f"Error: {type(e).__name__}: {str(e)}")
Summary(kind, msg) ==
  Line(Cat(MsgErrorLead, Cat(kind, Cat(MsgColon, msg))))

\* the part of the script that follows the guarded block of main()
AfterMain == IF save_plots THEN "plots" ELSE "footer"

\* the interpreter cannot compile the script: a traceback on the real
\* stderr, nothing of the script runs
ChildSyntaxError ==
  /\ pc = "wait"
  /\ child = "running"
  /\ cpc = "start"
  /\ \E i \in 1..Len(todo) : todo[i] = "bad"
  /\ real_err' = Cat(Line(MsgTraceback), Line(MsgSyntaxError))
  /\ child' = "exited"
  /\ cpc' = "done"
  /\ UNCHANGED <<appVars, peer, parentVars, cwd, todo, cap_out, cap_err, real_out,
                 builtins_import, builtins_open, streams, PLOT_ENABLED,
                 figs, last_import, last_open, saved_plots, env>>

\* lines 233-507, sandbox_header: the import hook is installed, the
\* streams are redirected, the write guard is installed when file writing
\* is not enabled, and matplotlib is set up when plots are requested.
ChildHeader ==
  /\ pc = "wait"
  /\ child = "running"
  /\ cpc = "start"
  /\ \A i \in 1..Len(todo) : todo[i] # "bad"
  /\ builtins_import' = "secure_import"
  /\ streams' = "StringIO"
  /\ builtins_open' = IF ~enable_file_write THEN "safe_open" ELSE "original"
  /\ IF save_plots
     THEN \E fs \in FindSpecResults, ok1 \in BOOLEAN :
            LET r == secure_import(matplotlib, GlobalsPackage(<<>>), 0,
                                   fs, ok1, FALSE)
                loaded == Loads(fs, r, ok1, FALSE)
            IN  /\ cap_out' =
                     Cat(r.out,
                         IF loaded THEN Line(MsgMatplotlibOk)
                         ELSE Line(Cat(MsgMatplotlibFailed,
                                       NoModuleMessage(matplotlib))))
                /\ PLOT_ENABLED' = loaded
     ELSE /\ cap_out' = <<>>
          /\ PLOT_ENABLED' = FALSE
  /\ cpc' = "main"
  /\ UNCHANGED <<appVars, peer, parentVars, cwd, child, todo, cap_err, real_out,
                 real_err, figs, last_import, last_open, saved_plots, env>>

\* a statement of the guarded block is about to run
AtStatement ==
  /\ pc = "wait"
  /\ child = "running"
  /\ cpc = "main"
  /\ todo # <<>>

\* the statement completed: on to the next one, or out of the try block
Advance ==
  /\ todo' = Tail(todo)
  /\ cpc' = IF Tail(todo) = <<>> THEN AfterMain ELSE "main"

\* lines 516-518: the statement raised an Exception; out holds what the
\* statement printed before
Caught(out, kind, msg) ==
  /\ cap_out' = Cat(cap_out, Cat(out, Summary(kind, msg)))
  /\ cap_err' = Cat(cap_err, Trace(kind, msg))
  /\ todo' = <<>>
  /\ cpc' = AfterMain

unchangedByStmt == <<parentVars, child, builtins_import, builtins_open, streams,
                     PLOT_ENABLED>>

PrintSizes == {1, 10000, 10001}

\* print("x" * n)
StmtPrint ==
  /\ AtStatement
  /\ \E n \in PrintSizes : cap_out' = Cat(cap_out, Line(Rep("x", n)))
  /\ Advance
  /\ UNCHANGED <<appVars, peer, unchangedByStmt, cwd, cap_err, real_out, real_err,
                 figs, last_import, last_open, saved_plots, env>>

\* print("e", file=sys.stderr)
StmtPrintErr ==
  /\ AtStatement
  /\ cap_err' = Cat(cap_err, Line(Rep("e", 1)))
  /\ Advance
  /\ UNCHANGED <<appVars, peer, unchangedByStmt, cwd, cap_out, real_out, real_err,
                 figs, last_import, last_open, saved_plots, env>>

\* os.write(2, b"r"): past sys.stderr, straight to the stderr pipe
StmtWriteFd ==
  /\ AtStatement
  /\ real_err' = Cat(real_err, Rep("r", 1))
  /\ Advance
  /\ UNCHANGED <<appVars, peer, unchangedByStmt, cwd, cap_out, cap_err, real_out, figs,
                 last_import, last_open, saved_plots, env>>

\* An import request builtins.__import__ receives while the statement
\* runs (an import statement of the snippet, or an import inside a module
\* it loads).
DoImport(name, g, level, fs, ok1, ok2) ==
  LET hooked == builtins_import = "secure_import"
      r == IF hooked THEN secure_import(name, g, level, fs, ok1, ok2)
           ELSE [ret |-> "original", package_name |-> <<>>, pip |-> <<>>,
                 out |-> <<>>]
  IN  /\ AtStatement
      /\ last_import' =
           [name |-> name, globals_dict |-> g, level |-> level, fs |-> fs,
            hook |-> builtins_import, ret |-> r.ret,
            package_name |-> r.package_name, pip |-> r.pip,
            pip_env |-> IF r.pip # <<>> THEN env ELSE {},
            pip_ok |-> IF Len(r.pip) = 0 THEN <<>>
                       ELSE IF Len(r.pip) = 1 THEN <<ok1>>
                       ELSE <<ok1, ok2>>,
            error |-> IF r.ret = "ImportError"
                      THEN BlockedImportMessage(r.package_name, name)
                      ELSE <<>>]
      /\ IF r.ret = "ImportError"
         THEN Caught(r.out, ImportErrorName,
                     BlockedImportMessage(r.package_name, name))
         ELSE IF r.ret = "original" /\ ~Loads(fs, r, ok1, ok2)
         THEN Caught(r.out, ModuleNotFoundErrorName, NoModuleMessage(name))
         ELSE /\ cap_out' = Cat(cap_out, r.out)
              /\ cap_err' = cap_err
              /\ Advance
      /\ UNCHANGED <<appVars, peer, unchangedByStmt, cwd, real_out, real_err, figs,
                     last_open, saved_plots, env>>

evil == <<"e","v","i","l">>

numpy == <<"n","u","m","p","y">>

\* the import requests of the snippets of the full model
os == <<"o","s">>

\* the import requests of the snippets: the name and what find_spec
\* answers for its top-level package
RunImports ==
  { <<evil, "None">>, <<numpy, "None">>, <<org_python_core, "None">>,
    <<os, "frozen">> }

\* import <name> at the top level of the snippet (the globals are those of
\* the script, whose __package__ is "")
StmtImport ==
  \E rq \in RunImports, ok1 \in BOOLEAN :
    DoImport(rq[1], GlobalsPackage(<<>>), 0, rq[2], ok1, FALSE)

\* open("out.txt", mode), or open("out.txt") when the mode is omitted;
\* builtins.open is the original open or safe_open; exists tells whether
\* the file is there.
DoOpen(mode, omitted, exists) ==
  LET guarded == builtins_open = "safe_open"
      g == safe_open(mode)
      \* original_open: the mode defaults to "r"; "r+" needs the file
      writes == ~omitted /\ IsWriteMode(mode)
      creates == writes /\ mode[1] # "r"
      orig == IF exists \/ creates THEN "handle" ELSE "FileNotFoundError"
      ret == IF guarded /\ omitted THEN "TypeError"
             ELSE IF guarded /\ g.ret = "None" THEN "None"
             ELSE orig
      out == IF guarded /\ ~omitted THEN g.out ELSE <<>>
  IN  /\ AtStatement
      /\ last_open' = [mode |-> mode, omitted |-> omitted,
                       hook |-> builtins_open, ret |-> ret,
                       existed |-> exists,
                       created |-> ret = "handle" /\ creates /\ ~exists]
      /\ IF ret = "TypeError"
         THEN Caught(out, TypeErrorName, MsgMissingMode)
         ELSE IF ret = "FileNotFoundError"
         THEN Caught(out, FileNotFoundErrorName, MsgNoSuchFile)
         ELSE /\ cap_out' = Cat(cap_out, out)
              /\ cap_err' = cap_err
              /\ Advance
      /\ UNCHANGED <<appVars, peer, unchangedByStmt, cwd, real_out, real_err, figs,
                     last_import, saved_plots, env>>

\* the open requests of the snippets
RunOpenModes == { <<"r">>, <<"w">> }

StmtOpen ==
  \/ \E mode \in RunOpenModes, exists \in BOOLEAN : DoOpen(mode, FALSE, exists)
  \/ \E exists \in BOOLEAN : DoOpen(<<>>, TRUE, exists)

\* raise Exception("boom")
StmtRaise ==
  /\ AtStatement
  /\ Caught(<<>>, ExceptionName, S(<<"b", "o", "o", "m">>))
  /\ UNCHANGED <<appVars, peer, unchangedByStmt, cwd, real_out, real_err, figs,
                 last_import, last_open, saved_plots, env>>

\* sys.exit() or a KeyboardInterrupt: not an Exception, so it leaves
\* main(); the interpreter ends without running the rest of the script
\* (a trace it prints goes to the sys.stderr of that moment)
StmtExit ==
  /\ AtStatement
  /\ child' = "exited"
  /\ cpc' = "done"
  /\ UNCHANGED <<appVars, peer, parentVars, cwd, todo, cap_out, cap_err, real_out,
                 real_err, builtins_import, builtins_open, streams,
                 PLOT_ENABLED, figs, last_import, last_open,
                 saved_plots, env>>

\* while True: pass
StmtHang ==
  /\ AtStatement
  /\ cpc' = "hung"
  /\ UNCHANGED <<appVars, peer, parentVars, cwd, child, todo, cap_out, cap_err,
                 real_out, real_err, builtins_import, builtins_open,
                 streams, PLOT_ENABLED, figs, last_import, last_open,
                 saved_plots, env>>

\* plt.figure(): plt is the name the header adds to builtins when the
\* matplotlib setup succeeded (lines 471-474)
StmtFigure ==
  /\ AtStatement
  /\ IF PLOT_ENABLED
     THEN /\ figs' = figs + 1
          /\ UNCHANGED <<cap_out, cap_err>>
          /\ Advance
     ELSE /\ figs' = figs
          /\ Caught(<<>>, NameErrorName, MsgPltUndefined)
  /\ UNCHANGED <<appVars, peer, unchangedByStmt, cwd, real_out, real_err, last_import,
                 last_open, saved_plots, env>>

\* f"plot_{i}.png"
PlotName(i) == Cat(PlotPrefix, Cat(Str(i), PlotSuffix))

\* ", ".join(saved_files) for plot_0.png .. plot_(n-1).png
RECURSIVE JoinPlots(_)
JoinPlots(n) ==
  IF n = 1 THEN PlotName(0)
  ELSE Cat(JoinPlots(n - 1), Cat(MsgPlotSep, PlotName(n - 1)))

\* lines 486-506 and 524-529: save_current_figures() and its report
ChildPlots ==
  /\ pc = "wait"
  /\ child = "running"
  /\ cpc = "plots"
  /\ IF PLOT_ENABLED /\ figs > 0
     THEN /\ cwd' = cwd \cup {PlotName(i) : i \in 0..(figs - 1)}
          /\ cap_out' = Cat(cap_out, Line(Cat(MsgPlotsSaved, JoinPlots(figs))))
     ELSE UNCHANGED <<cwd, cap_out>>
  /\ saved_plots' = IF PLOT_ENABLED THEN figs ELSE 0
  /\ figs' = 0
  /\ cpc' = "footer"
  /\ UNCHANGED <<appVars, peer, parentVars, child, todo, cap_err, real_out, real_err,
                 builtins_import, builtins_open, streams, PLOT_ENABLED,
                 last_import, last_open, env>>

\* lines 534-547, sandbox_footer: the originals are restored and the
\* captured text is printed, the error buffer after the output buffer,
\* both to the stdout pipe
ChildFooter ==
  /\ pc = "wait"
  /\ child = "running"
  /\ cpc = "footer"
  /\ streams' = "original"
  /\ builtins_import' = "original"
  /\ builtins_open' = "original"
  /\ real_out' = Cat(real_out,
                     Cat(Line(cap_out),
                         IF cap_err # <<>> THEN Line(cap_err) ELSE <<>>))
  /\ child' = "exited"
  /\ cpc' = "done"
  /\ UNCHANGED <<appVars, peer, parentVars, cwd, todo, cap_out, cap_err, real_err,
                 PLOT_ENABLED, figs, last_import, last_open,
                 saved_plots, env>>

\* ------------------------------------------------------------------------
\* Specification
\* ------------------------------------------------------------------------

Next ==
  \/ \E d \in InputData : Call(d)
  \/ Done
  \/ MakeTempDir
  \/ WriteScript
  \/ WriteInit
  \/ Spawn
  \/ RunReturns
  \/ TimeoutExpired
  \/ HarnessFault
  \/ ChildSyntaxError
  \/ ChildHeader
  \/ StmtPrint
  \/ StmtPrintErr
  \/ StmtWriteFd
  \/ StmtImport
  \/ StmtOpen
  \/ StmtRaise
  \/ StmtExit
  \/ StmtHang
  \/ StmtFigure
  \/ ChildPlots
  \/ ChildFooter

Spec == Init /\ [][Next]_vars

\* ------------------------------------------------------------------------
\* secure_import on its own: a child in the guarded block (the state the
\* header leaves for a one-statement snippet run without plots) receives
\* one import request drawn from every combination of name, globals,
\* level, find_spec answer and pip outcome
\* ------------------------------------------------------------------------

ImportNames ==
  { evil,
    evil \o <<".","s","u","b">>,
    <<"_">> \o evil,
    numpy,
    numpy \o <<".","l","i","n","a","l","g">>,
    os,
    <<"s","y","s">>,
    org_python_core,
    <<>>,
    mpl_toolkits,
    mpl_toolkits_basemap,
    mpl_toolkits \o evil,
    mpl_toolkits \o <<".", "m", "p", "l", "o", "t", "3", "d">>,
    <<"P","I","L">>,
    <<"n","t">>,
    <<"s","k","s","p","a","r","s","e",".","c","h","o","l","m","o","d">>,
    <<"y","a","m","l">> }

ImportGlobals ==
  { GlobalsNone, GlobalsEmpty, GlobalsNoPackage, GlobalsPackageNone,
    GlobalsPackage(<<>>), GlobalsPackage(numpy),
    GlobalsPackage(evil \o <<".","s","u","b">>) }

ImportLevels == {0, 1, 2}

InitImport ==
  /\ pc = "wait"
  /\ input_data = [code |-> CodeStr(S(<<"stmt">>)),
                   timeout |-> TimeoutAbsent, save_plots |-> "False"]
  /\ code = S(<<"stmt">>)
  /\ timeout = DefaultTimeout
  /\ save_plots = FALSE
  /\ temp_dir = "exists"
  /\ temp_files = {"sandbox_script.py", "__init__.py"}
  /\ output = <<>>
  /\ result = Ok(<<>>)
  /\ caught = "none"
  /\ raised = "none"
  /\ cwd = {}
  /\ child = "running"
  /\ cpc = "main"
  /\ todo = <<"stmt">>
  /\ cap_out = <<>>
  /\ cap_err = <<>>
  /\ real_out = <<>>
  /\ real_err = <<>>
  /\ builtins_import = "secure_import"
  /\ builtins_open = IF ~enable_file_write THEN "safe_open" ELSE "original"
  /\ streams = "StringIO"
  /\ PLOT_ENABLED = FALSE
  /\ figs = 0
  /\ last_import = NoImport
  /\ last_open = NoOpen
  /\ saved_plots = 0
  /\ env = ChildEnv
  /\ peer = "none"
  /\ AppInit

ImportRequest ==
  \E name \in ImportNames, g \in ImportGlobals, level \in ImportLevels,
     fs \in FindSpecResults, ok1 \in BOOLEAN, ok2 \in BOOLEAN :
    DoImport(name, g, level, fs, ok1, ok2)

NextImport == ImportRequest

SpecImport == InitImport /\ [][NextImport]_vars

\* ------------------------------------------------------------------------
\* safe_open on its own: a child in the guarded block of a script that was
\* generated with enable_file_write = False, so that the header has
\* installed safe_open as builtins.open (lines 437-439), receives open
\* requests drawn from every combination of mode and file existence,
\* between statements that print
\* ------------------------------------------------------------------------

OpenModes ==
  { <<"r">>, <<"r", "b">>, <<"w">>, <<"w", "b">>, <<"a">>, <<"r", "+">> }

InitOpen ==
  /\ pc = "wait"
  /\ input_data = [code |-> CodeStr(S(Snippet(MaxStmts))),
                   timeout |-> TimeoutAbsent, save_plots |-> "False"]
  /\ code = S(Snippet(MaxStmts))
  /\ timeout = DefaultTimeout
  /\ save_plots = FALSE
  /\ temp_dir = "exists"
  /\ temp_files = {"sandbox_script.py", "__init__.py"}
  /\ output = <<>>
  /\ result = Ok(<<>>)
  /\ caught = "none"
  /\ raised = "none"
  /\ cwd = {}
  /\ child = "running"
  /\ cpc = "main"
  /\ todo = Statements(S(Snippet(MaxStmts)))
  /\ cap_out = <<>>
  /\ cap_err = <<>>
  /\ real_out = <<>>
  /\ real_err = <<>>
  /\ builtins_import = "secure_import"
  /\ builtins_open = "safe_open"
  /\ streams = "StringIO"
  /\ PLOT_ENABLED = FALSE
  /\ figs = 0
  /\ last_import = NoImport
  /\ last_open = NoOpen
  /\ saved_plots = 0
  /\ env = ChildEnv
  /\ peer = "none"
  /\ AppInit

OpenRequest ==
  \/ \E mode \in OpenModes, exists \in BOOLEAN : DoOpen(mode, FALSE, exists)
  \/ \E exists \in BOOLEAN : DoOpen(<<>>, TRUE, exists)

NextOpen ==
  \/ OpenRequest
  \/ StmtPrint
  \/ StmtPrintErr

SpecOpen == InitOpen /\ [][NextOpen]_vars

\* ------------------------------------------------------------------------
\* Two calls of execute_code at the same time in one process: the call
\* modelled above and a peer call with save_plots true whose snippet opens
\* one figure.  Each call has its own temporary directory (line 41); the
\* children are started without a cwd argument (lines 57-71), so both run
\* in the working directory of the process, which line 85 lists.
\* ------------------------------------------------------------------------

\* a call is between its entry and its return
InProgress == pc \in {"mkdtemp", "write_script", "write_init", "spawn", "wait"}

\* lines 57-71 of the peer call: its child is started
PeerSpawn ==
  /\ InProgress
  /\ peer = "none"
  /\ peer' = "running"
  /\ UNCHANGED <<parentVars, childVars, cwd, appVars>>

\* lines 494-496 in the peer's child: fig.savefig("plot_0.png")
PeerChildPlots ==
  /\ InProgress
  /\ peer = "running"
  /\ cwd' = cwd \cup {PlotName(0)}
  /\ peer' = "exited"
  /\ UNCHANGED <<parentVars, childVars, appVars>>

NextConcurrent ==
  \/ \E d \in InputData : Call(d)
  \/ MakeTempDir
  \/ WriteScript
  \/ WriteInit
  \/ Spawn
  \/ RunReturns
  \/ TimeoutExpired
  \/ HarnessFault
  \/ ChildSyntaxError
  \/ ChildHeader
  \/ StmtPrint
  \/ StmtPrintErr
  \/ StmtWriteFd
  \/ StmtImport
  \/ StmtOpen
  \/ StmtRaise
  \/ StmtExit
  \/ StmtHang
  \/ StmtFigure
  \/ ChildPlots
  \/ ChildFooter
  \/ PeerSpawn
  \/ PeerChildPlots

\* the first call of the process (nothing is in the working directory)
\* and its peer
SpecConcurrent == Init /\ [][NextConcurrent]_vars

\* ------------------------------------------------------------------------
\* Properties
\* ------------------------------------------------------------------------

\* a request as the interface describes it: code is a string (or left
\* out), timeout is a number (or left out)
IsRequest(d) ==
  /\ d.code.t \in {"absent", "str"}
  /\ d.timeout.t \in {"absent", "num"}

\* the code is absent, empty or made of whitespace only
IsBlank(c) ==
  \/ c.t = "absent"
  \/ c.t = "str" /\ \A i \in 1..Len(c.v) : c.v[i][1] \in Whitespace

\* C1: a request whose code is absent, empty or whitespace-only returns
\* exactly "Error: No code provided to execute." with no error, and no
\* temporary directory is created and no child process is started.
Thm_C1 ==
  (pc # "idle" /\ IsRequest(input_data) /\ IsBlank(input_data.code))
    => /\ pc = "returned"
       /\ result.content = NoCodeMsg
       /\ ~result.has_error
       /\ temp_dir = "none"
       /\ temp_files = {}
       /\ child = "none"

Wit_C1 ==
  /\ pc = "returned"
  /\ input_data.code = CodeStr(S(<<"\n", " ", " ", "\t", "\n">>))
  /\ input_data.timeout = TimeoutNum(100)
  /\ result.content = NoCodeMsg

\* what the claim C2 calls part of the standard library: a built-in name,
\* or a file under the standard-library location
ClaimedStdlib(li) ==
  \/ li.package_name \in STANDARD_LIB_MODULES
  \/ li.fs = "built-in"
  \/ OriginUnderStdlibPath(li.fs)

Cex_C3 ==
  (/\ last_open.ret # "none"
   /\ ~last_open.omitted
   /\ IsWriteMode(last_open.mode))
    => /\ last_open.ret = "None"
       /\ ~last_open.created
       /\ Contains(cap_out, MsgWriteDenied)

\* C3, amended: in the default configuration (enable_file_write = True)
\* the write guard is not installed for the guarded block: builtins.open
\* stays the original open, so a snippet that opens a file in mode "w"
\* gets a usable handle, no security diagnostic is emitted and the file
\* is created when it did not exist.
Thm_C3 ==
  /\ cpc = "main" => builtins_open = "original"
  /\ (last_open.ret # "none" /\ ~last_open.omitted
        /\ last_open.mode = <<"w">>)
       => /\ last_open.hook = "original"
          /\ last_open.ret = "handle"
          /\ last_open.created = ~last_open.existed
          /\ ~Contains(cap_out, MsgWriteDenied)

Wit_C3 ==
  /\ last_open.mode = <<"w">>
  /\ ~last_open.omitted
  /\ last_open.ret = "handle"
  /\ last_open.created
  /\ cpc = "main"

\* C4 as stated: the content returned is at most 10,000 characters long.
Cex_C4 == pc = "returned" => TLen(result.content) <= 10000

\* C4, amended: the content returned is at most 10,050 characters long
\* (10,000 characters of output and the 50 characters of the truncation
\* suffix).
Thm_C4 == pc = "returned" => TLen(result.content) <= 10050

Wit_C4 ==
  /\ pc = "returned"
  /\ TLen(result.content) = 10050
  /\ real_err # <<>>

\* a call that returned what the child printed
ReturnedOutput == pc = "returned" /\ caught = "none" /\ child = "exited"

\* C5: an assembled output longer than 10,000 characters is returned as
\* its first 10,000 characters followed by the truncation suffix; an
\* assembled output of 10,000 characters or fewer is returned unchanged.
Thm_C5 ==
  ReturnedOutput =>
    IF TLen(output) > 10000
    THEN /\ TLen(result.content) = 10000 + TLen(TruncationSuffix)
         /\ Slice(result.content, 10000) = Slice(output, 10000)
         /\ SliceFrom(result.content, 10000) = TruncationSuffix
    ELSE result.content = output

Wit_C5 ==
  /\ ReturnedOutput
  /\ TLen(output) = 10001
  /\ TLen(result.content) = 10050

\* C6: the timeout applied to the wait on the child is greater than 0 and
\* at most 40.
Cex_C6 == pc = "wait" => (timeout > 0 /\ timeout <= 40)

\* C7: the effective timeout is min(requested timeout, 40), with 20 when
\* no timeout is given; a timeout of 100 gives the effective timeout of a
\* timeout of 40.
Thm_C7 ==
  (pc \notin {"idle", "raised"} /\ IsRequest(input_data))
    => /\ timeout = IF input_data.timeout.t = "absent" THEN 20
                    ELSE IF input_data.timeout.v > 40 THEN 40
                    ELSE input_data.timeout.v
       /\ input_data.timeout \in {TimeoutNum(100), TimeoutNum(40)}
            => timeout = 40

Wit_C7 ==
  /\ pc = "wait"
  /\ input_data.timeout = TimeoutNum(100)
  /\ timeout = 40
  /\ child = "running"

\* C8: when the wait on the child times out, the content returned is
\* exactly "Error: Code execution timed out." with no error; the output
\* of the child and the plot notice are not part of it.
Thm_C8 ==
  (pc = "returned" /\ caught = "TimeoutExpired")
    => /\ result.content = TimedOutMsg
       /\ ~result.has_error
       /\ child # "running"

Wit_C8 ==
  /\ pc = "returned"
  /\ caught = "TimeoutExpired"
  /\ child = "killed"
  /\ timeout > 0
  /\ cap_out # <<>>
  /\ save_plots
  /\ cwd # {}
  /\ result.content = TimedOutMsg

\* C9: a failure of the harness inside the try block is returned as empty
\* content with an error whose message starts with "Error executing
\* code: "; no other outcome returns an error.
Thm_C9 ==
  pc = "returned" =>
    /\ caught = "Exception"
         => /\ result.content = <<>>
            /\ result.has_error
            /\ StartsWith(result.error, ErrorExecutingPrefix)
    /\ result.has_error => caught = "Exception"

Wit_C9 ==
  /\ pc = "returned"
  /\ caught = "Exception"
  /\ result.has_error
  /\ child = "killed"
  /\ temp_dir = "removed"

\* C10: execute_code never raises: for every input dictionary the call
\* returns a (content, error) pair.
Cex_C10 == raised = "none"

\* C11: no result without an error has empty content: a run whose code
\* prints nothing returns the marker "(No output)" as its stdout part.
Cex_C11 ==
  (pc = "returned" /\ ~result.has_error) => result.content # <<>>

\* C12: however the caller's code ends (exception, sys.exit,
\* KeyboardInterrupt), the child reaches the footer, so that everything
\* captured in the guarded block has been written to the stdout pipe when
\* the child has ended.
Cex_C12 ==
  (child = "exited" /\ cap_out # <<>>) => StartsWith(real_out, cap_out)

\* C13: on every exit path of the guarded block the original import
\* function, the original open and the original streams are restored: the
\* child never ends with a hook or a capture buffer installed.
Cex_C13 ==
  child = "exited" =>
    /\ builtins_import = "original"
    /\ builtins_open = "original"
    /\ streams = "original"

\* the notice "<n> plot(s) were generated."
PlotNotice(n) == Cat(PlotNoticeLead, Cat(Str(n), PlotNoticeTail))

\* C14: after any sequence of earlier requests, a run with save_plots true
\* that saved n >= 1 figures returns content ending with the notice for
\* n, the files plot_0.png .. plot_(n-1).png being written; a run that
\* saved no figure gets no plot notice.
Cex_C14 ==
  (ReturnedOutput /\ save_plots /\ TLen(output) <= MaxOutput)
    => IF saved_plots >= 1
       THEN /\ EndsWith(result.content, PlotNotice(saved_plots))
            /\ \A i \in 0..(saved_plots - 1) : PlotName(i) \in cwd
       ELSE ~EndsWith(result.content, PlotNoticeTail)

\* C15: calls that run at the same time share no mutable state: the
\* output assembled for a call is the one the same call assembles when it
\* runs alone, that is from its own streams and its own plot files.
Cex_C15 ==
  ReturnedOutput
    => output = Assemble(real_out, real_err, save_plots,
                         {PlotName(i) : i \in 0..(saved_plots - 1)})

\* C16: for every request with non-empty code the temporary directory
\* that holds the script and the package marker no longer exists when
\* execute_code returns, after a normal exit, a timeout and a harness
\* failure alike; it was created and removed in the first two cases.
Thm_C16 ==
  (pc = "returned" /\ code # <<>>)
    => /\ temp_dir # "exists"
       /\ temp_files = {}
       /\ caught \in {"none", "TimeoutExpired"} => temp_dir = "removed"

Wit_C16 ==
  /\ pc = "returned"
  /\ code # <<>>
  /\ caught = "Exception"
  /\ child = "killed"
  /\ cpc = "main"
  /\ temp_dir = "removed"

\* C17 as stated: every request with non-empty code has spawned exactly
\* one child when it returns, and that child is not running.
Cex_C17 ==
  (pc = "returned" /\ code # <<>>) => child \in {"exited", "killed"}

\* C17, amended: a child is started only by the spawn step of a call that
\* has no child yet, so a call has at most one child; a request with
\* non-empty code that returns without a harness failure has had exactly
\* one child, which has exited when the output is returned and has been
\* killed when the wait timed out; no child is running when execute_code
\* returns.  A harness failure before the spawn step returns without any
\* child.
Thm_C17 ==
  /\ [](pc = "returned" =>
          /\ child # "running"
          /\ (code # <<>> /\ caught # "Exception")
               => child \in {"exited", "killed"}
          /\ (code # <<>> /\ caught = "none") => child = "exited"
          /\ (caught = "TimeoutExpired" /\ timeout > 0) => child = "killed")
  /\ [][(child' = "running" /\ child # "running")
          => (pc = "spawn" /\ pc' = "wait" /\ child = "none")]_vars
  /\ [][(pc = "wait" /\ pc' # "wait") => pc' = "returned"]_vars

Wit_C17 ==
  /\ pc = "returned"
  /\ caught = "TimeoutExpired"
  /\ timeout > 0
  /\ child = "killed"
  /\ cpc = "hung"

Thm_C19 ==
  LET li == last_import
      detected ==
        /\ li.package_name # <<>>
        /\ \/ li.package_name[1] = "_"
           \/ li.package_name \in STANDARD_LIB_MODULES
           \/ li.fs \in {"stdlib_file", "site_under_stdlib", "built-in",
                         "local_lib"}
  IN  (li.ret # "none" /\ li.hook = "secure_import" /\ detected)
        => /\ li.ret = "original"
           /\ li.pip = <<>>
           /\ ~Contains(cap_out, MsgInstallingLead)

Wit_C19 ==
  /\ last_import.ret = "original"
  /\ last_import.hook = "secure_import"
  /\ last_import.package_name = numpy
  /\ last_import.fs = "stdlib_file"
  /\ last_import.level = 2

\* C20: when the write guard is installed, every open with a write,
\* append or read-write mode returns no handle, emits the security
\* diagnostic and creates no file, and every read-only open, the mode
\* given or left to its default, returns what the original open returns.
Cex_C20 ==
  LET lo == last_open
      writeMode == /\ ~lo.omitted
                   /\ \E i \in 1..Len(lo.mode) : lo.mode[i] \in {"w", "a", "+"}
      original == IF lo.existed THEN "handle" ELSE "FileNotFoundError"
  IN  (lo.ret # "none" /\ lo.hook = "safe_open")
        => IF writeMode
           THEN /\ lo.ret = "None"
                /\ ~lo.created
                /\ Contains(cap_out, MsgWriteDenied)
           ELSE lo.ret = original

\* C21: for a run that exits before the timeout the content before
\* truncation is, in this order, the stripped stdout (or "(No output)"
\* when stdout is empty), then, iff stderr is not empty, "\n\nErrors:\n"
\* and the stripped stderr, then, iff save_plots is true and plot files
\* are present, "\n\n<n> plot(s) were generated."; truncation is applied
\* last, to the whole.
Thm_C21 ==
  ReturnedOutput =>
    LET part1 == IF real_out = <<>> THEN NoOutputMarker ELSE Strip(real_out)
        part2 == IF real_err = <<>> THEN <<>>
                 ELSE Cat(ErrorsSeparator, Strip(real_err))
        part3 == IF save_plots /\ cwd # {}
                 THEN PlotNotice(Cardinality(cwd))
                 ELSE <<>>
    IN  /\ output = Cat(part1, Cat(part2, part3))
        /\ StartsWith(output, part1)
        /\ EndsWith(output, part3)
        /\ result.content =
             IF TLen(output) > 10000
             THEN Cat(Slice(output, 10000), TruncationSuffix)
             ELSE output

Wit_C21 ==
  /\ ReturnedOutput
  /\ real_out # <<>>
  /\ real_err # <<>>
  /\ save_plots
  /\ saved_plots = 1
  /\ Cardinality(cwd) = 2
  /\ TLen(output) <= 10000

\* the child ran its footer
FooterRan == child = "exited" /\ cpc = "done" /\ streams = "original"

\* C22: when the caller's code raises, the summary goes to the output
\* stream and the trace to the error stream; text sent to standard error
\* inside the guarded block reaches the runner as stderr, not as stdout.
Cex_C22 ==
  (FooterRan /\ builtins_import = "original" /\ cap_err # <<>>)
    => /\ real_out = Line(cap_out)
       /\ TLen(real_err) >= TLen(cap_err)

\* C23: the child is started with an environment of exactly two
\* variables, the module search path pointing at the temporary directory
\* of the request and the unbuffered-output flag; no variable of the
\* parent's environment is in it, nor in the environment of a package
\* installation the child starts.
Thm_C23 ==
  /\ child # "none"
       => /\ Cardinality(env) = 2
          /\ <<"PYTHONPATH", "temp_dir">> \in env
          /\ <<"PYTHONUNBUFFERED", "1">> \in env
          /\ env \cap os_environ = {}
  /\ last_import.pip # <<>>
       => /\ last_import.pip_env \subseteq env
          /\ last_import.pip_env \cap os_environ = {}

Wit_C23 ==
  /\ child = "running"
  /\ pc = "wait"
  /\ Len(last_import.pip) = 1
  /\ Cardinality(last_import.pip_env) = 2

\* the requests secure_import has answered
Answered == last_import.hook = "secure_import" /\ last_import.ret # "none"

\* the entry of the override table for a name, the name itself without one
HasOverride(k) == \E p \in PACKAGE_NAME_OVERRIDES : p[1] = k

OverrideOf(k) ==
  IF HasOverride(k)
  THEN (CHOOSE p \in PACKAGE_NAME_OVERRIDES : p[1] = k)[2]
  ELSE k

\* C24: the installer is run exactly when the top-level name of the
\* request is not standard library, is on the allow-list, cannot be
\* resolved and is not among the install exceptions; the first name it is
\* run with is the override of that top-level name when the table has
\* one, and the top-level name otherwise.
Thm_C24 ==
  Answered =>
    LET pkg == last_import.package_name
        resolvable == last_import.fs \notin {"None", "ModuleNotFoundError"}
        wanted == /\ pkg # <<>>
                  /\ ~is_standard_library(pkg, last_import.fs)
                  /\ pkg \in ALLOWED_PACKAGES
                  /\ ~resolvable
                  /\ pkg \notin exceptions
    IN  /\ (last_import.pip # <<>>) <=> wanted
        /\ last_import.pip # <<>> =>
             last_import.pip[1] = IF HasOverride(pkg) THEN OverrideOf(pkg)
                                  ELSE pkg

Wit_C24 ==
  /\ Answered
  /\ last_import.name = <<"P","I","L">>
  /\ last_import.pip = << <<"P","i","l","l","o","w">> >>
  /\ last_import.pip_ok = <<TRUE>>

\* C25 as stated: a second installer run is made exactly when the first
\* fails and the first two dot-segments of the override of the top-level
\* package, joined by a hyphen, differ from the first name, and it uses
\* that candidate.
Cex_C25 ==
  (Answered /\ last_import.pip # <<>>) =>
    LET first == last_import.pip[1]
        cand  == FirstTwoJoined(OverrideOf(last_import.package_name))
    IN  /\ Len(last_import.pip) = 2 => last_import.pip[2] = cand
        /\ (Len(last_import.pip) = 2)
             <=> (~last_import.pip_ok[1] /\ cand # first)

\* C25: when the first installer run fails, exactly one second run is
\* made, with the first two dot-segments of the override of the requested
\* name (the name as passed to the import, itself when the table has no
\* entry for it) joined by a hyphen, and only when that candidate differs
\* from the first name; after a successful first run there is no second
\* one; whatever the installer's outcome, the request is handed to the
\* original import.
Thm_C25 ==
  (Answered /\ last_import.pip # <<>>) =>
    LET first == last_import.pip[1]
        cand  == FirstTwoJoined(OverrideOf(last_import.name))
    IN  /\ Len(last_import.pip) \in {1, 2}
        /\ Len(last_import.pip_ok) = Len(last_import.pip)
        /\ Len(last_import.pip) = 2 => last_import.pip[2] = cand
        /\ (Len(last_import.pip) = 2)
             <=> (~last_import.pip_ok[1] /\ cand # first)
        /\ last_import.ret = "original"

Wit_C25 ==
  /\ Answered
  /\ last_import.name = numpy \o <<".","l","i","n","a","l","g">>
  /\ last_import.pip = <<numpy, numpy \o <<"-","l","i","n","a","l","g">> >>
  /\ last_import.pip_ok = <<FALSE, FALSE>>
  /\ last_import.ret = "original"

\* C26: the top-level package of a requested name is its first
\* dot-segment, except that mpl_toolkits.basemap and its dotted
\* submodules give "mpl_toolkits.basemap" and mpl_toolkits and its other
\* dotted submodules give "matplotlib".
Cex_C26 ==
  Answered =>
    LET n == rel_import_name(last_import.name, last_import.globals_dict,
                             last_import.level)
        IsOrUnder(m) == n = m \/ NameStartsWith(n, m \o <<".">>)
    IN  last_import.package_name =
          IF IsOrUnder(mpl_toolkits_basemap) THEN mpl_toolkits_basemap
          ELSE IF IsOrUnder(mpl_toolkits) THEN matplotlib
          ELSE FirstSegment(n)

\* ------------------------------------------------------------------------
\* The agent loop (src/main.py)
\* ------------------------------------------------------------------------

\* the names register_tool has put into tool_registry
tool_registry ==
  {"str_replace_editor", "read_file", "list_files", "edit_file",
   "web_scraper"}

TextBlock(text) == [type |-> "text", text |-> text]

ToolUse(id, name) == [type |-> "tool_use", id |-> id, name |-> name]

ToolResult(id_str, content) ==
  [type |-> "tool_result", tool_use_id |-> id_str, content |-> content]

\* lines 240-243: the message made of the user's input
UserMessage(user_input) ==
  [role |-> "user", content |-> <<TextBlock(user_input)>>]

\* lines 379-386: the message run_inference returns when the API call fails
InferenceError ==
  [role |-> "assistant",
   content |-> <<TextBlock("Error during inference.")>>]

\* The content lists the API answers with: text only, and text followed by
\* a tool_use block for a name that is not registered and one for a
\* registered tool.
ReplyShapes == { <<"text">>, <<"text", "unknown", "known">> }

\* response.model_dump() for a shape; the tool_use ids count up from id
Reply(shape, id) ==
  [role |-> "assistant",
   content |->
     [i \in 1..Len(shape) |->
        IF shape[i] = "text" THEN TextBlock("ok")
        ELSE ToolUse(id + Cardinality({j \in 1..(i - 1) : shape[j] # "text"}),
                     IF shape[i] = "known" THEN "read_file"
                     ELSE "no_such_tool")]]

\* what run_inference can return (lines 370-386)
run_inference(id) == {Reply(shape, id) : shape \in ReplyShapes}
                       \cup {InferenceError}

IsToolUse(content) == content.type = "tool_use"

ToolUses(message) == SelectSeq(message.content, IsToolUse)

\* execute_tool(id_str, name, input_data), for a tool function that
\* returns (response, None) or ("", err)
execute_tool(id_str, name, outcome) ==
  IF name \notin tool_registry
  THEN ToolResult(id_str, "tool not found")
  ELSE IF outcome = "error"
  THEN ToolResult(id_str, "ERROR: file 'x' not found")
  ELSE ToolResult(id_str, "file contents")

\* lines 252-266: one pass of the loop over message["content"], as the
\* frames it can lead to; raised_pc is where the frame is when the tool
\* function has raised
ContentStep(frame, raised_pc) ==
  LET content == frame.message.content[frame.i]
  IN  IF IsToolUse(content)
      THEN { [frame EXCEPT
                !.tool_results =
                   Append(@, execute_tool(content.id, content.name, outcome)),
                !.i = @ + 1] : outcome \in {"response", "error"} }
           \cup IF content.name \in tool_registry
                THEN {[frame EXCEPT !.pc = raised_pc, !.message = NoMessage,
                                    !.tool_results = <<>>, !.i = 0]}
                ELSE {}
      ELSE {[frame EXCEPT !.i = @ + 1]}

\* lines 233-244: the user's input is read and appended, or the loop ends
RunReadInput ==
  /\ run.pc = "top"
  /\ read_user_input
  /\ \E ok \in BOOLEAN :
       IF ok
       THEN /\ conversation' =
                 [conversation EXCEPT ![0] = Append(@, UserMessage("hi"))]
            /\ run' = [run EXCEPT !.pc = "infer"]
       ELSE /\ run' = [run EXCEPT !.pc = "exited"]
            /\ UNCHANGED conversation
  /\ UNCHANGED <<execVars, inferenceVars, read_user_input, webVars, editVars>>

\* lines 246-248: run_inference is called and its message appended
RunInference ==
  /\ \/ run.pc = "infer"
     \/ run.pc = "top" /\ ~read_user_input
  /\ calls < MaxCalls
  /\ \E message \in run_inference(next_id) :
       /\ conversation' = [conversation EXCEPT ![0] = Append(@, message)]
       /\ run' = [pc |-> "content", message |-> message,
                  tool_results |-> <<>>, i |-> 1]
       /\ next_id' = next_id + Len(ToolUses(message))
  /\ seen' = conversation[0]
  /\ calls' = calls + 1
  /\ UNCHANGED <<execVars, read_user_input, webVars, editVars>>

\* lines 250-266: the next block of the message; a tool function that
\* raises ends run
RunContent ==
  /\ run.pc = "content"
  /\ run.i <= Len(run.message.content)
  /\ run' \in ContentStep(run, "raised")
  /\ UNCHANGED <<execVars, conversation, inferenceVars, read_user_input,
                 webVars, editVars>>

\* lines 268-277: after the last block
RunResults ==
  /\ run.pc = "content"
  /\ run.i > Len(run.message.content)
  /\ IF run.tool_results = <<>>
     THEN /\ read_user_input' = TRUE
          /\ UNCHANGED conversation
     ELSE /\ read_user_input' = FALSE
          /\ conversation' =
               [conversation EXCEPT
                  ![0] = Append(@, [role |-> "user",
                                    content |-> run.tool_results])]
  /\ run' = [run EXCEPT !.pc = "top"]
  /\ UNCHANGED <<execVars, inferenceVars, webVars, editVars>>

NextAgent ==
  \/ RunReadInput
  \/ RunInference
  \/ RunContent
  \/ RunResults

SpecAgent == Init /\ [][NextAgent]_vars

\* ------------------------------------------------------------------------
\* The web interface (src/web_app.py)
\* ------------------------------------------------------------------------

Event(event, sid) == [event |-> event, sid |-> sid]

\* lines 318-343: a socket connects
handle_connect(sid) ==
  /\ sid \notin connected
  /\ agents < MaxAgents
  /\ agents' = agents + 1
  /\ active_sessions' =
       [s \in DOMAIN active_sessions \cup {sid} |->
          IF s = sid THEN agents + 1 ELSE active_sessions[s]]
  /\ connected' = connected \cup {sid}
  /\ last_event' = Event("connect", sid)
  /\ UNCHANGED <<execVars, conversation, inferenceVars, runVars, threads,
                 editVars>>

\* a handler that leaves the agent of the session in place
handle_disconnect_keep(sid) ==
  /\ sid \in connected
  /\ connected' = connected \ {sid}
  /\ last_event' = Event("disconnect", sid)
  /\ UNCHANGED <<execVars, conversation, inferenceVars, runVars,
                 active_sessions, agents, threads, editVars>>

\* lines 345-350: a socket disconnects
handle_disconnect(sid) ==
  /\ sid \in connected
  /\ active_sessions' =
       IF sid \in DOMAIN active_sessions
       THEN [s \in DOMAIN active_sessions \ {sid} |-> active_sessions[s]]
       ELSE active_sessions
  /\ connected' = connected \ {sid}
  /\ last_event' = Event("disconnect", sid)
  /\ UNCHANGED <<execVars, conversation, inferenceVars, runVars, agents,
                 threads, editVars>>

FreeThreads == {t \in Threads : threads[t].pc = "none"}

\* lines 352-360: a message event; the thread is started, not yet run
handle_message(sid) ==
  /\ IF sid \in DOMAIN active_sessions
     THEN /\ FreeThreads # {}
          /\ LET t == CHOOSE f \in FreeThreads :
                        \A g \in FreeThreads : f <= g
             IN  threads' =
                   [threads EXCEPT
                      ![t] = [agent |-> active_sessions[sid],
                              pc |-> "start", message |-> NoMessage,
                              tool_results |-> <<>>, i |-> 0]]
     ELSE UNCHANGED threads
  /\ last_event' = Event("message", sid)
  /\ UNCHANGED <<execVars, conversation, inferenceVars, runVars,
                 active_sessions, connected, agents, editVars>>

\* a frame of process_conversation, its locals not yet bound
Frame(t, at) ==
  [agent |-> threads[t].agent, pc |-> at, message |-> NoMessage,
   tool_results |-> <<>>, i |-> 0]

\* lines 66-76: process_user_message appends the user's message
ProcessUserMessage(t) ==
  /\ threads[t].pc = "start"
  /\ conversation' =
       [conversation EXCEPT
          ![threads[t].agent] = Append(@, UserMessage("hi"))]
  /\ threads' = [threads EXCEPT ![t].pc = "infer"]
  /\ UNCHANGED <<execVars, inferenceVars, runVars, active_sessions,
                 connected, agents, last_event, editVars>>

\* line 81 and main.py lines 330-332: run_inference copies the
\* conversation into the request
ProcessInferenceCall(t) ==
  /\ threads[t].pc = "infer"
  /\ calls < MaxCalls
  /\ seen' = conversation[threads[t].agent]
  /\ calls' = calls + 1
  /\ threads' = [threads EXCEPT ![t].pc = "api"]
  /\ UNCHANGED <<execVars, conversation, next_id, runVars, active_sessions,
                 connected, agents, last_event, editVars>>

\* lines 81-82: the API call returns and the message is appended
ProcessInferenceReturn(t) ==
  /\ threads[t].pc = "api"
  /\ \E message \in run_inference(next_id) :
       /\ conversation' =
            [conversation EXCEPT ![threads[t].agent] = Append(@, message)]
       /\ threads' =
            [threads EXCEPT
               ![t] = [agent |-> threads[t].agent, pc |-> "content",
                       message |-> message, tool_results |-> <<>>,
                       i |-> 1]]
       /\ next_id' = next_id + Len(ToolUses(message))
  /\ UNCHANGED <<execVars, calls, seen, runVars, active_sessions, connected,
                 agents, last_event, editVars>>

\* lines 85-116: the next block of the message; a tool function that
\* raises ends the thread
ProcessContent(t) ==
  /\ threads[t].pc = "content"
  /\ threads[t].i <= Len(threads[t].message.content)
  /\ \E frame \in ContentStep(threads[t], "raised") :
       threads' = [threads EXCEPT ![t] = frame]
  /\ UNCHANGED <<execVars, conversation, inferenceVars, runVars,
                 active_sessions, connected, agents, last_event, editVars>>

\* lines 118-123: after the last block, the results are appended and
\* process_conversation calls itself, or the thread ends
ProcessResults(t) ==
  /\ threads[t].pc = "content"
  /\ threads[t].i > Len(threads[t].message.content)
  /\ IF threads[t].tool_results = <<>>
     THEN /\ threads' = [threads EXCEPT ![t] = Frame(t, "done")]
          /\ UNCHANGED conversation
     ELSE /\ conversation' =
               [conversation EXCEPT
                  ![threads[t].agent] =
                     Append(@, [role |-> "user",
                                content |-> threads[t].tool_results])]
          /\ threads' = [threads EXCEPT ![t] = Frame(t, "infer")]
  /\ UNCHANGED <<execVars, inferenceVars, runVars, active_sessions,
                 connected, agents, last_event, editVars>>

NextWeb ==
  \/ \E sid \in Sessions : handle_connect(sid)
  \/ \E sid \in Sessions : handle_disconnect(sid)
  \/ \E sid \in Sessions : handle_message(sid)
  \/ \E t \in Threads : ProcessUserMessage(t)
  \/ \E t \in Threads : ProcessInferenceCall(t)
  \/ \E t \in Threads : ProcessInferenceReturn(t)
  \/ \E t \in Threads : ProcessContent(t)
  \/ \E t \in Threads : ProcessResults(t)

SpecWeb == Init /\ [][NextWeb]_vars

\* ------------------------------------------------------------------------
\* The edit_file tool (src/main.py)
\* ------------------------------------------------------------------------

\* str.replace(old, new) for a non-empty old: every occurrence, found from
\* the left without overlap
RECURSIVE Replace(_, _, _)
Replace(content, old, new) ==
  IF Len(content) < Len(old) THEN content
  ELSE IF SubSeq(content, 1, Len(old)) = old
  THEN new \o Replace(SubSeq(content, Len(old) + 1, Len(content)), old, new)
  ELSE <<Head(content)>> \o Replace(Tail(content), old, new)

\* str.replace(old, new, 1)
RECURSIVE ReplaceFirst(_, _, _)
ReplaceFirst(content, old, new) ==
  IF Len(content) < Len(old) THEN content
  ELSE IF SubSeq(content, 1, Len(old)) = old
  THEN new \o SubSeq(content, Len(old) + 1, Len(content))
  ELSE <<Head(content)>> \o ReplaceFirst(Tail(content), old, new)

\* create_new_file(file_path, content): the value returned and the file
\* system it leaves; open(file_path, "w") fails on a directory
create_new_file(fs, file_path, content) ==
  IF fs[file_path].kind = "dir"
  THEN [ret |-> Returned("", "Failed to create file: Is a directory"),
        files |-> fs]
  ELSE [ret |-> Returned("Successfully created file", "None"),
        files |-> [fs EXCEPT ![file_path] = File(content)]]

\* _edit_file that replaces the first occurrence only
edit_first(fs, file_path, old_str, new_str) ==
  IF fs[file_path].kind = "absent"
  THEN [ret |-> Returned("", "ERROR: file not found"), files |-> fs]
  ELSE IF fs[file_path].kind = "dir"
  THEN [ret |-> Returned("", "Is a directory"), files |-> fs]
  ELSE LET content == fs[file_path].text
           new_content == IF old_str = <<>> THEN new_str
                          ELSE ReplaceFirst(content, old_str, new_str)
       IN  IF old_str # <<>> /\ content = new_content
           THEN [ret |-> Returned("", "ERROR: old_str not found in file"),
                 files |-> fs]
           ELSE create_new_file(fs, file_path, new_content)

\* _edit_file(file_path, old_str, new_str)
_edit_file(fs, file_path, old_str, new_str) ==
  IF fs[file_path].kind = "absent"
  THEN [ret |-> Returned("", "ERROR: file not found"), files |-> fs]
  ELSE IF fs[file_path].kind = "dir"
  THEN [ret |-> Returned("", "Is a directory"), files |-> fs]
  ELSE LET content == fs[file_path].text
           new_content == IF old_str = <<>> THEN new_str
                          ELSE Replace(content, old_str, new_str)
       IN  IF old_str # <<>> /\ content = new_content
           THEN [ret |-> Returned("", "ERROR: old_str not found in file"),
                 files |-> fs]
           ELSE create_new_file(fs, file_path, new_content)

\* edit_file(input_data)
edit_file(fs, in) ==
  IF "path" \notin in.keys
  THEN [ret |-> Returned("", "ERROR: missing required parameter: path"),
        files |-> fs]
  ELSE IF "old_str" \notin in.keys
  THEN [ret |-> Returned("", "ERROR: missing required parameter: old_str"),
        files |-> fs]
  ELSE IF "new_str" \notin in.keys
  THEN [ret |-> Returned("", "ERROR: missing required parameter: new_str"),
        files |-> fs]
  ELSE IF in.path = ""
  THEN [ret |-> Returned("", "ERROR: 'path' must not be empty"),
        files |-> fs]
  ELSE IF in.old_str = in.new_str
  THEN [ret |->
          Returned("", "ERROR: 'old_str' must be different from 'new_str'"),
        files |-> fs]
  ELSE IF in.old_str = <<>>
  THEN create_new_file(fs, in.path, in.new_str)
  ELSE _edit_file(fs, in.path, in.old_str, in.new_str)

\* the texts given as old_str and new_str
EditStrings == { <<>>, <<"a">>, <<"b">>, <<"a", "b">>, <<"b", "b">> }

EditKeys == {"path", "old_str", "new_str"}

\* the input_data dicts: all three keys, or one of them left out
EditInputs ==
  { [keys |-> EditKeys, path |-> p, old_str |-> o, new_str |-> n] :
      p \in FsPaths \cup {""}, o \in EditStrings, n \in EditStrings }
  \cup { [keys |-> EditKeys \ {"path"}, path |-> "", old_str |-> o,
          new_str |-> n] : o \in EditStrings, n \in EditStrings }
  \cup { [keys |-> EditKeys \ {"old_str"}, path |-> p, old_str |-> <<>>,
          new_str |-> n] : p \in FsPaths \cup {""}, n \in EditStrings }
  \cup { [keys |-> EditKeys \ {"new_str"}, path |-> p, old_str |-> o,
          new_str |-> <<>>] : p \in FsPaths \cup {""}, o \in EditStrings }

\* one call of the tool
EditFile ==
  \E in \in EditInputs :
    LET r == edit_file(files, in)
    IN  /\ \A p \in FsPaths : Len(r.files[p].text) <= MaxContent
        /\ files' = r.files
        /\ edit_input' = in
        /\ edit_result' = r.ret
        /\ UNCHANGED <<execVars, conversation, inferenceVars, runVars,
                       webVars>>

NextEdit == EditFile

SpecEdit == Init /\ [][NextEdit]_vars

\* ------------------------------------------------------------------------
\* Properties of the agent loop, the web interface and edit_file
\* ------------------------------------------------------------------------

\* reply is the user message that answers the tool_use blocks of message:
\* one tool_result for each block, in the order of the blocks, with the
\* id of the block and the content execute_tool gives for its name
ResultsFor(message, reply) ==
  LET uses == ToolUses(message)
  IN  /\ reply.role = "user"
      /\ Len(reply.content) = Len(uses)
      /\ \A i \in 1..Len(uses) :
           /\ reply.content[i].type = "tool_result"
           /\ reply.content[i].tool_use_id = uses[i].id
           /\ IF uses[i].name \in tool_registry
              THEN reply.content[i].content
                     \in {"ERROR: file 'x' not found", "file contents"}
              ELSE reply.content[i].content = "tool not found"

HasToolUse(message) ==
  message.role = "assistant" /\ ToolUses(message) # <<>>

\* every message with tool_use blocks that has a successor is followed by
\* its results
AnsweredDirectly(conv) ==
  \A k \in 1..(Len(conv) - 1) :
    HasToolUse(conv[k]) => ResultsFor(conv[k], conv[k + 1])

\* Agent.run on its own: the results follow their message directly, a
\* message with tool_use blocks is last only while run works on it, and
\* input is read only after a message without tool_use blocks
RunLoopOrder ==
  LET conv == conversation[0]
  IN  /\ AnsweredDirectly(conv)
      /\ (conv # <<>> /\ HasToolUse(conv[Len(conv)]))
           => /\ run.pc \in {"content", "raised"}
              /\ run.pc = "content" => run.message = conv[Len(conv)]
      /\ (run.pc = "top" /\ read_user_input /\ conv # <<>>)
           => /\ conv[Len(conv)].role = "assistant"
              /\ ~HasToolUse(conv[Len(conv)])

RunLoopReached ==
  /\ run.pc = "top"
  /\ read_user_input
  /\ Len(conversation[0]) = 4
  /\ HasToolUse(conversation[0][2])

\* C27: in the conversation of every web agent, an assistant message with
\* tool_use blocks that has a successor is directly followed by one user
\* message holding exactly one tool_result for each block, in block
\* order, with the id of the block and the content for an unknown tool,
\* an error or a response.
Cex_C27 ==
  \A a \in 1..MaxAgents : AnsweredDirectly(conversation[a])

\* C28: the conversation of every web agent is well-formed whatever the
\* threads do: the results follow their message directly, a message with
\* tool_use blocks is last only while a running thread works on it, and
\* every conversation handed to an inference call ends with a user
\* message and has all its tool_use blocks answered.
Cex_C28 ==
  /\ \A a \in 1..MaxAgents :
       LET conv == conversation[a]
       IN  /\ AnsweredDirectly(conv)
           /\ (conv # <<>> /\ HasToolUse(conv[Len(conv)]))
                => \E t \in Threads :
                     /\ threads[t].agent = a
                     /\ threads[t].pc = "content"
                     /\ threads[t].message = conv[Len(conv)]
  /\ seen # <<>>
       => /\ seen[Len(seen)].role = "user"
          /\ AnsweredDirectly(seen)

\* active_sessions holds one agent of its own for each connected session
\* id and nothing else
SessionsMatch ==
  /\ DOMAIN active_sessions = connected
  /\ \A s \in DOMAIN active_sessions : active_sessions[s] \in 1..agents
  /\ \A s1, s2 \in DOMAIN active_sessions :
       s1 # s2 => active_sessions[s1] # active_sessions[s2]

\* a message event for a session id without an agent starts no thread and
\* changes nothing
IdleMessage ==
  (/\ last_event' # last_event
   /\ last_event'.event = "message"
   /\ last_event'.sid \notin DOMAIN active_sessions)
    => UNCHANGED <<execVars, conversation, inferenceVars, runVars,
                   active_sessions, connected, agents, threads, editVars>>

\* C29: after any sequence of connect, disconnect and message events,
\* active_sessions holds exactly one agent for each connected session id
\* and none for a disconnected one, and a message event for a session id
\* that is not in active_sessions starts no processing and changes no
\* state.
Thm_C29 == []SessionsMatch /\ [][IdleMessage]_vars

Wit_C29 ==
  /\ last_event = Event("message", "sid1")
  /\ "sid1" \notin DOMAIN active_sessions
  /\ "sid2" \in DOMAIN active_sessions
  /\ agents = 2
  /\ threads[1].agent = 1
  /\ threads[1].pc = "content"
  /\ threads[2].pc = "none"

\* old occurs in content
Occurs(old, content) ==
  \E i \in 1..(Len(content) - Len(old) + 1) :
    SubSeq(content, i, i + Len(old) - 1) = old

\* the call that has just returned was refused for one of the reasons
\* edit_file and _edit_file give
EditRefused ==
  LET in == edit_input'
  IN  \/ in.keys # EditKeys
      \/ in.path = ""
      \/ in.old_str = in.new_str
      \/ /\ in.old_str # <<>>
         /\ files[in.path].kind = "absent"
      \/ /\ in.old_str # <<>>
         /\ files[in.path].kind = "file"
         /\ ~Occurs(in.old_str, files[in.path].text)

EditStep ==
  LET in == edit_input'
  IN  /\ EditRefused
        => /\ edit_result'.err # "None"
           /\ files' = files
      /\ (~EditRefused /\ in.old_str = <<>> /\ files[in.path].kind # "dir")
        => /\ edit_result'.err = "None"
           /\ files' = [files EXCEPT ![in.path] = File(in.new_str)]
      /\ (~EditRefused /\ in.old_str # <<>> /\ files[in.path].kind = "file")
        => /\ edit_result'.err = "None"
           /\ files' = [files EXCEPT
                          ![in.path] =
                             File(Replace(files[in.path].text, in.old_str,
                                          in.new_str))]

====
